---- MODULE Spec2Model ----
(***************************************************************************)
(* Model of the style assistant:                                           *)
(*   - FoxitService.checkTaskStatus / mapFoxitStatusToOurFormat            *)
(*     (services/amazonService.ts),                                        *)
(*   - FoxitService.createStylePortfolio (services/amazonService.ts, and   *)
(*     the earlier services/foxitService.ts) with the hand-over made by    *)
(*     generateStyleDocuments,                                             *)
(*   - ChatInterface.pollProcessingStatus (components/ThemeToggle.tsx,     *)
(*     two revisions of the component),                                    *)
(*   - ReverseSearchService.calculateSimilarityScore                       *)
(*     (services/reverseSearchService.ts),                                 *)
(*   - ChatInterface.handleSendMessage and generateStyleDocuments with     *)
(*     analyzeStylePreferences and searchProducts,                         *)
(*   - FoxitService.downloadDocument and handleDownloadDocument,          *)
(*   - ReverseSearchService.searchByStyle with its scoring, reasons and    *)
(*     ordering (services/reverseSearchService.ts),                        *)
(*   - BudgetOptimizer.optimizeForBudget (the budget panel),               *)
(*   - StyleDocumentToolbar: the option dialogs and the status loop        *)
(*     (App.tsx),                                                          *)
(*   - the later ChatInterface with a text turn and an image turn running  *)
(*     side by side.                                                       *)
(* Thirteen specifications share the module: SpecStatus, SpecPortfolio,    *)
(* Spec (the poller against a remote that answers anything), SpecScenario  *)
(* (the poller against a scripted remote), SpecScore, SpecTurn,            *)
(* SpecTurnLive, SpecDownload, SpecSearch, SpecBudget, SpecToolbar,        *)
(* SpecToolbarLive and SpecSession.  Each leaves the variables of the      *)
(* other parts idle.                                                       *)
(***************************************************************************)
EXTENDS Integers, Sequences, FiniteSets, TLC

VARIABLES
    \* ---- checkTaskStatus (SpecStatus)
    stResponse,     \* what the remote answers to GET /api/tasks/{taskId}
    stArg,          \* the value handed to mapFoxitStatusToOurFormat
    stResult,       \* the TaskStatusResponse checkTaskStatus resolves to
    \* ---- createStylePortfolio / generateStyleDocuments (SpecPortfolio)
    pfService,      \* which revision of FoxitService runs
    pfPc,           \* position inside createStylePortfolio
    pfGenRequests,  \* number of generateDocumentFromTemplate requests issued
    pfMain,         \* result.mainDocument has been obtained
    pfDocxId,       \* id of the uploaded DOCX document (new revision), or None
    pfJobs,         \* per job: "idle" | "pending" | "ok" | "fail"
    pfTaskId,       \* per job: the taskId the remote answered, or None
    pfResult,       \* result.processedVersions, set by the Promise.all
    pfOutcome,      \* "running" | "returned" | "threw"
    pfHanded,       \* the processedVersions handed to pollProcessingStatus
    \* ---- pollProcessingStatus (Spec)
    component,      \* which revision of ChatInterface runs the poller
    documents,      \* the `documents.processedVersions` the callbacks close over
    msgVersions,    \* processedVersions of the chat message the poller updates
    now,            \* milliseconds since pollProcessingStatus was called
    intervalOn,     \* pollInterval has not been cleared
    timeoutPending, \* the setTimeout callback has not run yet
    inflight,       \* ticks awaiting their Promise.all: how many first, how many later
    summaries,      \* completion messages appended to the chat
    timeoutMsgs,    \* 'taking longer than expected' messages appended
    script,         \* how the remote answers the status queries of this run
    queried,        \* per task: status queries issued by the tick started last
    \* ---- calculateSimilarityScore (SpecScore)
    scProduct,      \* the product scored: title and optional category
    scParams,       \* the style attributes it is scored against
    scScore,        \* the score returned by the latest call, or NoScore
    \* ---- handleSendMessage / generateStyleDocuments (SpecTurn)
    tRev,           \* which revision of ChatInterface handles the turn
    tPc,            \* where handleSendMessage is: the await it is suspended at
    tTurns,         \* turns started so far
    isLoading,      \* the component's isLoading state
    isGeneratingDocuments, \* the component's isGeneratingDocuments state
    messages,       \* the chat: a sequence of messages
    tAnalyzer,      \* how the Style Analyzer answered in this turn
    tAnalysis,      \* styleAnalysis: what analyzeStylePreferences resolved to
    tCatalog,       \* how the catalog answered in this turn
    tProducts,      \* products: what searchProducts resolved to
    tChat,          \* how the reply call (openaiService.chat) ended
    tGen,           \* how createStylePortfolio ended
    tPolled,        \* {bundle, messageId} pairs given to pollProcessingStatus
    \* ---- downloadDocument / handleDownloadDocument (SpecDownload)
    dlTarget,       \* documentIdOrUrl
    dlFilename,     \* filename, or Absent
    dlPc,           \* "start" | "fetching" | "done"
    dlUrl,          \* the URL fetched
    dlResponse,     \* what the remote answered to the download request
    dlThrown,       \* the message of the Error downloadDocument threw
    dlShown,        \* the message of the Error handleDownloadDocument threw
    \* ---- searchByStyle (SpecSearch)
    srFound,        \* the products the catalog searches returned, flattened
    srParams,       \* the style attributes and the budget searched for
    srPc,           \* "searching" | "done"
    srResult,       \* the products of the SearchResult returned
    \* ---- BudgetOptimizer.optimizeForBudget (SpecBudget)
    boProducts,     \* the products prop: price, tier and alternatives of each
    boBudget,       \* the budget prop in dollars (0: none)
    boPc,           \* "shown" | "updated"
    boHanded,       \* the list handed to onProductsUpdate
    \* ---- StyleDocumentToolbar (SpecToolbar)
    tbOperation,    \* "social" | "split" | "merge": the modal that is open
    tbTicked,       \* positions of the options whose checkboxes are ticked
    tbSelected,     \* the options passed to the handler, by position
    tbPc,           \* "modal" | "submitting" | "polling" | "settling" | "finished"
    tbOption,       \* position in tbSelected of the option being processed
    tbAttempts,     \* attempts of the polling loop of the current job
    tbQueries,      \* status queries made for the current job
    tbOutcomes,     \* how each processed option ended, in order
    tbNewTasks,     \* newTasks: the options whose job completed
    isProcessing,   \* the toolbar's isProcessing state
    \* ---- text turn and image turn side by side (SpecSession)
    ssFlow,         \* per flow ("text", "image"): the await its handler is at
    ssMessages,     \* the chat: messages with products and styleDocuments
    ssIsLoading,    \* isLoading
    ssIsAnalyzingImage,       \* isAnalyzingImage
    ssIsGeneratingDocuments,  \* isGeneratingDocuments
    ssDocuments,    \* per flow: the `documents` its poller closes over
    ssPolling,      \* per flow: the interval of its poller is active
    ssTicks         \* per flow: ticks of its poller that have settled

statusVars    == <<stResponse, stArg, stResult>>
portfolioVars == <<pfService, pfPc, pfGenRequests, pfMain, pfDocxId, pfJobs,
                   pfTaskId, pfResult, pfOutcome, pfHanded>>
pollVars      == <<component, documents, msgVersions, now, intervalOn,
                   timeoutPending, inflight, summaries, timeoutMsgs, script,
                   queried>>
scoreVars     == <<scProduct, scParams, scScore>>
turnVars      == <<tRev, tPc, tTurns, isLoading, isGeneratingDocuments, messages,
                   tAnalyzer, tAnalysis, tCatalog, tProducts, tChat, tGen, tPolled>>
downloadVars  == <<dlTarget, dlFilename, dlPc, dlUrl, dlResponse, dlThrown, dlShown>>
searchVars == <<srFound, srParams, srPc, srResult>>
budgetVars == <<boProducts, boBudget, boPc, boHanded>>
toolbarVars == <<tbOperation, tbTicked, tbSelected, tbPc, tbOption, tbAttempts, tbQueries, tbOutcomes, tbNewTasks, isProcessing>>
sessionVars == <<ssFlow, ssMessages, ssIsLoading, ssIsAnalyzingImage, ssIsGeneratingDocuments, ssDocuments, ssPolling, ssTicks>>

None   == "none"
Absent == "absent"      \* a field missing from the JSON answer (undefined)

(***************************************************************************)
(* checkTaskStatus and the status translation                              *)
(***************************************************************************)

\* Status words a remote may send, in several spellings, and some that are
\* not part of the vocabulary.
StatusWords ==
    { "PENDING", "pending", "Pending", "PROCESSING", "processing",
      "COMPLETED", "completed", "Completed", "FAILED", "failed",
      "CANCELLED", "DONE", "" }

\* String.prototype.toUpperCase on the status words.
ToUpperCase(s) ==
    CASE s \in {"PENDING", "pending", "Pending"}       -> "PENDING"
      [] s \in {"PROCESSING", "processing"}            -> "PROCESSING"
      [] s \in {"COMPLETED", "completed", "Completed"} -> "COMPLETED"
      [] s \in {"FAILED", "failed"}                    -> "FAILED"
      [] OTHER                                         -> s

\* JavaScript truthiness of an optional string field.
Truthy(x) == x # Absent /\ x # ""

\* a || b on optional string fields.
OrElse(a, b) == IF Truthy(a) THEN a ELSE b

\* A plausible slip: unknown words are treated as still running.
mapFoxitStatusDefaultProcessing(foxitStatus) ==
    IF foxitStatus = Absent THEN "failed"
    ELSE CASE ToUpperCase(foxitStatus) = "COMPLETED" -> "completed"
           [] ToUpperCase(foxitStatus) = "FAILED"    -> "failed"
           [] OTHER                                  -> "processing"

\* foxitStatus?.toUpperCase() switched over PENDING/PROCESSING/COMPLETED,
\* FAILED and default falling to 'failed'.
mapFoxitStatusToOurFormat(foxitStatus) ==
    IF foxitStatus = Absent THEN "failed"
    ELSE CASE ToUpperCase(foxitStatus) \in {"PENDING", "PROCESSING"} -> "processing"
           [] ToUpperCase(foxitStatus) = "COMPLETED"                 -> "completed"
           [] OTHER                                                  -> "failed"

\* Answers of the remote to a status query.  kind "neterr": fetch rejects;
\* kind "http": a non-OK response with that code; kind "ok": a JSON body.
HttpErrorCodes == {404, 500, 401}

ErrorResponses ==
    { [kind |-> "neterr", code |-> 0, status |-> Absent, state |-> Absent,
       documentId |-> Absent] }
    \cup
    { [kind |-> "http", code |-> c, status |-> Absent, state |-> Absent,
       documentId |-> Absent] : c \in HttpErrorCodes }

OkResponses ==
    { [kind |-> "ok", code |-> 200, status |-> s, state |-> t, documentId |-> d] :
        s \in StatusWords \cup {Absent},
        t \in {"COMPLETED", "PROCESSING", Absent},
        d \in {"doc-out", Absent} }

RemoteResponses == ErrorResponses \cup OkResponses

\* The argument of the translation: result.status || result.state.
StatusArgument(r) == OrElse(r.status, r.state)

\* checkTaskStatus(taskId): the TaskStatusResponse it resolves to.  It never
\* rejects: the catch turns every error into status 'failed'.
checkTaskStatus(r) ==
    IF r.kind = "neterr"
    THEN [status |-> "failed", downloadUrl |-> Absent, documentId |-> Absent]
    ELSE IF r.kind = "http"
    THEN \* 404 returns 'failed' directly, any other code throws into the catch
         [status |-> "failed", downloadUrl |-> Absent, documentId |-> Absent]
    ELSE LET mappedStatus == mapFoxitStatusToOurFormat(StatusArgument(r))
         IN  [status      |-> mappedStatus,
              downloadUrl |-> IF mappedStatus = "completed" /\ Truthy(r.documentId)
                              THEN r.documentId ELSE Absent,
              documentId  |-> r.documentId]

\* No answer yet / no result yet.
NoResponse == [kind |-> None, code |-> 0, status |-> Absent, state |-> Absent,
               documentId |-> Absent]
NoResult   == [status |-> None, downloadUrl |-> Absent, documentId |-> Absent]

StatusInit ==
    /\ stResponse \in RemoteResponses
    /\ stArg = None
    /\ stResult = NoResult

StatusIdle ==
    /\ stResponse = NoResponse
    /\ stArg = None
    /\ stResult = NoResult

\* One call of checkTaskStatus on the pending answer.
CheckTaskStatus ==
    /\ stResponse \in RemoteResponses
    /\ stResult = NoResult
    /\ stArg' = IF stResponse.kind = "ok" THEN StatusArgument(stResponse) ELSE None
    /\ stResult' = checkTaskStatus(stResponse)
    /\ UNCHANGED stResponse

\* The next query of the same client gets another answer.
NextStatusQuery ==
    /\ stResult # NoResult
    /\ stResponse' \in ErrorResponses
    /\ stArg' = None
    /\ stResult' = NoResult

(***************************************************************************)
(* createStylePortfolio and the hand-over in generateStyleDocuments        *)
(***************************************************************************)

\* The two revisions of FoxitService.createStylePortfolio:
\* "old" is services/foxitService.ts, "new" is services/amazonService.ts.
Services == {"old", "new"}

\* The processing jobs createStylePortfolio submits, by the type it gives them.
JobTypes == {"compressed", "social-images", "quick-reference"}

\* What a job submission may answer as task.taskId (the JSON may lack it).
TaskIdAnswers == {"task-a", Absent}

UploadedDocxId == "docx-doc"

\* A plausible slip: no .catch on the submissions, so that one rejection
\* rejects the Promise.all and the surrounding catch keeps the empty list.
ProcessedVersionsAllOrNothing(svc, jobs, taskIds, docxId) ==
    IF \E j \in JobTypes : jobs[j] = "fail"
    THEN {}
    ELSE { [type |-> j, taskId |-> taskIds[j]] : j \in {k \in JobTypes : jobs[k] = "ok"} }
         \cup (IF svc = "new" THEN {[type |-> "docx-version", taskId |-> docxId]} ELSE {})

\* processedResults.filter(Boolean): the {type, taskId} of every submission
\* that resolved, and in the new revision the docx-version entry carrying the
\* id of the uploaded DOCX document.
ProcessedVersions(svc, jobs, taskIds, docxId) ==
    { [type |-> j, taskId |-> taskIds[j]] : j \in {k \in JobTypes : jobs[k] = "ok"} }
    \cup (IF svc = "new" THEN {[type |-> "docx-version", taskId |-> docxId]} ELSE {})

\* A plausible slip: the DOCX entry is treated as ready from the start.
StyleDocumentVersionsDocxReady(processedVersions) ==
    { [type |-> v.type, taskId |-> v.taskId,
       status |-> IF v.type = "docx-version" THEN "completed" ELSE "processing"] :
        v \in processedVersions }

\* generateStyleDocuments: processedVersions.map(v => ({...v, status: 'processing'})).
StyleDocumentVersions(processedVersions) ==
    { [type |-> v.type, taskId |-> v.taskId, status |-> "processing"] :
        v \in processedVersions }

PortfolioInit ==
    /\ pfService \in Services
    /\ pfPc = "template"
    /\ pfGenRequests = 0
    /\ pfMain = FALSE
    /\ pfDocxId = None
    /\ pfJobs = [j \in JobTypes |-> "idle"]
    /\ pfTaskId = [j \in JobTypes |-> None]
    /\ pfResult = {}
    /\ pfOutcome = "running"
    /\ pfHanded = {}

PortfolioIdle ==
    /\ pfService = "new"
    /\ pfPc = "idle"
    /\ pfGenRequests = 0
    /\ pfMain = FALSE
    /\ pfDocxId = None
    /\ pfJobs = [j \in JobTypes |-> "idle"]
    /\ pfTaskId = [j \in JobTypes |-> None]
    /\ pfResult = {}
    /\ pfOutcome = "running"
    /\ pfHanded = {}

\* The outer catch: the call rejects with 'Failed to create style portfolio'.
Throw ==
    /\ pfPc' = "done"
    /\ pfOutcome' = "threw"

\* The inner catch (uploadError): the result is returned with what it holds.
ReturnResult ==
    /\ pfPc' = "done"
    /\ pfOutcome' = "returned"

\* getTemplate (debugTemplate and prepareTemplateData follow; debugTemplate
\* swallows its own errors).
LoadTemplate ==
    /\ pfPc = "template"
    /\ \/ /\ pfPc' = "genPdf"
          /\ UNCHANGED pfOutcome
       \/ Throw
    /\ UNCHANGED <<pfService, pfGenRequests, pfMain, pfDocxId, pfJobs, pfTaskId,
                   pfResult, pfHanded>>

\* generateDocumentFromTemplate(..., 'pdf'): the main document.
GeneratePdf ==
    /\ pfPc = "genPdf"
    /\ pfGenRequests' = pfGenRequests + 1
    /\ \/ /\ pfMain' = TRUE
          /\ pfPc' = IF pfService = "new" THEN "genDocx" ELSE "uploadPdf"
          /\ UNCHANGED pfOutcome
       \/ /\ Throw
          /\ UNCHANGED pfMain
    /\ UNCHANGED <<pfService, pfDocxId, pfJobs, pfTaskId, pfResult, pfHanded>>

\* New revision only: generateDocumentFromTemplate(..., 'docx'), still
\* outside the inner try.
GenerateDocx ==
    /\ pfPc = "genDocx"
    /\ pfGenRequests' = pfGenRequests + 1
    /\ \/ /\ pfPc' = "uploadPdf"
          /\ UNCHANGED pfOutcome
       \/ Throw
    /\ UNCHANGED <<pfService, pfMain, pfDocxId, pfJobs, pfTaskId, pfResult, pfHanded>>

\* The three submissions are issued together once the uploads are through.
StartSubmissions ==
    /\ pfJobs' = [j \in JobTypes |-> "pending"]
    /\ pfPc' = "submit"
    /\ UNCHANGED pfOutcome

\* uploadGeneratedDocument(generatedDoc.base64FileString), inside the inner try.
UploadPdf ==
    /\ pfPc = "uploadPdf"
    /\ \/ /\ pfService = "new"
          /\ pfPc' = "uploadDocx"
          /\ UNCHANGED <<pfOutcome, pfJobs>>
       \/ /\ pfService = "old"
          /\ StartSubmissions
       \/ /\ ReturnResult
          /\ UNCHANGED pfJobs
    /\ UNCHANGED <<pfService, pfGenRequests, pfMain, pfDocxId, pfTaskId, pfResult,
                   pfHanded>>

\* New revision only: uploadGeneratedDocument(generatedDocx.base64FileString, 'docx').
UploadDocx ==
    /\ pfPc = "uploadDocx"
    /\ \/ /\ pfDocxId' = UploadedDocxId
          /\ StartSubmissions
       \/ /\ ReturnResult
          /\ UNCHANGED <<pfDocxId, pfJobs>>
    /\ UNCHANGED <<pfService, pfGenRequests, pfMain, pfTaskId, pfResult, pfHanded>>

\* One submission settles: .then(task => ({type, taskId})) or .catch(() => null).
SettleSubmission(j) ==
    /\ pfPc = "submit"
    /\ pfJobs[j] = "pending"
    /\ \/ \E id \in TaskIdAnswers :
             /\ pfJobs' = [pfJobs EXCEPT ![j] = "ok"]
             /\ pfTaskId' = [pfTaskId EXCEPT ![j] = id]
       \/ /\ pfJobs' = [pfJobs EXCEPT ![j] = "fail"]
          /\ UNCHANGED pfTaskId
    /\ UNCHANGED <<pfService, pfPc, pfGenRequests, pfMain, pfDocxId, pfResult,
                   pfOutcome, pfHanded>>

\* await Promise.all(processingPromises); filter(Boolean); return result.
CollectVersions ==
    /\ pfPc = "submit"
    /\ \A j \in JobTypes : pfJobs[j] \in {"ok", "fail"}
    /\ pfResult' = ProcessedVersions(pfService, pfJobs, pfTaskId, pfDocxId)
    /\ ReturnResult
    /\ UNCHANGED <<pfService, pfGenRequests, pfMain, pfDocxId, pfJobs, pfTaskId,
                   pfHanded>>

\* generateStyleDocuments after the call returned: build styleDocuments and,
\* when the list is not empty, call pollProcessingStatus with it.
HandToPoller ==
    /\ pfPc = "done"
    /\ pfOutcome = "returned"
    /\ pfPc' = "handed"
    /\ pfHanded' = StyleDocumentVersions(pfResult)
    /\ UNCHANGED <<pfService, pfGenRequests, pfMain, pfDocxId, pfJobs, pfTaskId,
                   pfResult, pfOutcome>>

(***************************************************************************)
(* pollProcessingStatus                                                    *)
(***************************************************************************)

\* The two revisions of ChatInterface in components/ThemeToggle.tsx:
\* "v1" is lines 29-614 (the poller posts chat messages), "v2" is lines
\* 616-1363 (the poller only updates the task list).
Components == {"v1", "v2"}

PollIntervalMs == 5000
PollTimeoutMs  == 300000

\* How many ticks may await answers that do arrive, at the same time.
MaxInflight == 2
\* How many intervals past the timeout the clock is followed.
ExtraIntervals == 2
\* Largest task list the poller is started with when the remote is free.
MaxBatch == 2

Horizon == PollTimeoutMs + ExtraIntervals * PollIntervalMs

\* Outcomes of the three submissions the poller is started after.
PollJobOutcomes ==
    { [j \in JobTypes |-> "ok"],
      [j \in JobTypes |-> IF j = "compressed" THEN "ok" ELSE "fail"] }

\* The task lists generateStyleDocuments can hand over.
PollBatches ==
    { StyleDocumentVersions(
          ProcessedVersions(svc, jobs, [j \in JobTypes |-> "task-a"], UploadedDocxId)) :
        svc \in Services, jobs \in PollJobOutcomes }

TypesOf(versions) == { v.type : v \in versions }

StatusIn(versions, t) == (CHOOSE v \in versions : v.type = t).status

\* Answers of the remote the poller is driven with: one of each kind, a
\* COMPLETED both with and without the id of the resulting document.
PollResponses ==
    { r \in RemoteResponses :
        \/ r.kind = "neterr"
        \/ /\ r.kind = "ok"
           /\ r.state = Absent
           /\ \/ r.status = "COMPLETED"
              \/ r.status \in {"PROCESSING", "FAILED"} /\ r.documentId = Absent }

\* The free remote names the resulting document with every COMPLETED.
FreeResponses ==
    { r \in PollResponses : r.status = "COMPLETED" => r.documentId # Absent }

\* The answers a status query can get under each script: a scripted remote
\* fixes kind and status word, not the presence of the document id.
AnswerPool == IF script = "free" THEN FreeResponses ELSE PollResponses

FallbackUrl == "pdfServicesUrl/api/documents/{documentId}/download"

\* One entry of a message's processedVersions.
Version(st, url) == [status |-> st, downloadUrl |-> url]

\* A plausible slip: the completed entry takes the downloadUrl of the status
\* answer as it is, without the URL built from the service address.
UpdatedVersionNoFallback(version, r) ==
    IF version.status = "processing"
    THEN LET taskStatus == checkTaskStatus(r)
         IN  IF taskStatus.status = "completed"
             THEN Version("completed", taskStatus.downloadUrl)
             ELSE IF taskStatus.status = "failed"
             THEN Version("failed", version.downloadUrl)
             ELSE version
    ELSE version

\* The body of the per-version callback of one tick: `version` is the entry
\* of documents.processedVersions, `r` the remote's answer to its query.
UpdatedVersion(version, r) ==
    IF version.status = "processing"
    THEN LET taskStatus == checkTaskStatus(r)
         IN  IF taskStatus.status = "completed"
             THEN Version("completed", OrElse(taskStatus.downloadUrl, FallbackUrl))
             ELSE IF taskStatus.status = "failed"
             THEN Version("failed", version.downloadUrl)
             ELSE version
    ELSE version

\* allCompleted after the Promise.all: no queried version stayed processing.
AllCompleted(docs, answers) ==
    \A t \in DOMAIN docs :
        docs[t].status = "processing" =>
            checkTaskStatus(answers[t]).status \in {"completed", "failed"}

\* How the remote behaves in a run: "free" (any answer to any query),
\* "errors" (every status query fails), "sequence" (of three tasks,
\* compressed completes on tick 1, social-images fails on tick 2,
\* quick-reference never resolves).
SequenceStatus(ordinal, t) ==
    CASE t = "compressed"      -> "COMPLETED"
      [] t = "social-images"   -> IF ordinal = 1 THEN "PROCESSING" ELSE "FAILED"
      [] OTHER                 -> "PROCESSING"

AnswersAllowed(s, ordinal, answers) ==
    CASE s = "errors"   -> \A t \in DOMAIN answers : answers[t].kind # "ok"
      [] s = "sequence" -> \A t \in DOMAIN answers :
                              /\ answers[t].kind = "ok"
                              /\ answers[t].status = SequenceStatus(ordinal, t)
      [] OTHER          -> TRUE

\* Ticks are told apart as the first one and the later ones where the
\* remote's answer depends on it.
OrdinalOf(time) == IF script = "sequence" /\ time <= PollIntervalMs THEN 1 ELSE 2

InflightCount == inflight[1] + inflight[2]

\* pollProcessingStatus(documents, messageId) was just called: the interval
\* and the timeout are armed, every version is 'processing'.
PollStart(batch) ==
    /\ documents = [t \in TypesOf(batch) |-> Version(StatusIn(batch, t), Absent)]
    /\ msgVersions = documents
    /\ now = 0
    /\ intervalOn = TRUE
    /\ timeoutPending = TRUE
    /\ inflight = [o \in {1, 2} |-> 0]
    /\ summaries = 0
    /\ timeoutMsgs = 0
    /\ queried = [t \in DOMAIN documents |-> 0]

PollInit ==
    /\ component \in Components
    /\ script = "free"
    /\ \E batch \in PollBatches :
          /\ Cardinality(batch) >= 1
          /\ Cardinality(batch) <= MaxBatch
          /\ PollStart(batch)

\* The runs in which the remote follows a script.
ScenarioInit ==
    /\ component \in Components
    /\ script \in {"errors", "sequence"}
    /\ \E batch \in PollBatches :
          /\ TypesOf(batch) = JobTypes
          /\ PollStart(batch)

PollIdle ==
    /\ component = "v1"
    /\ script = "free"
    /\ documents = [t \in {} |-> Version("processing", Absent)]
    /\ msgVersions = documents
    /\ now = 0
    /\ intervalOn = FALSE
    /\ timeoutPending = FALSE
    /\ inflight = [o \in {1, 2} |-> 0]
    /\ summaries = 0
    /\ timeoutMsgs = 0
    /\ queried = [t \in DOMAIN documents |-> 0]

\* The status queries one tick issues: checkTaskStatus(version.taskId) for
\* each entry of documents.processedVersions whose status is 'processing'.
QueriesOfTick(docs) ==
    [t \in DOMAIN docs |-> IF docs[t].status = "processing" THEN 1 ELSE 0]

\* Timers run in the order they fall due, the interval (armed first) before
\* the timeout when both are due at the same instant.
TimeoutDue == timeoutPending /\ now >= PollTimeoutMs

\* The interval callback starts at the next multiple of the interval: it
\* issues the status queries and awaits them.  awaited = FALSE is a tick
\* whose queries stay unanswered for the rest of the run (a free remote only;
\* a scripted remote answers every query).
Tick(awaited) ==
    /\ intervalOn
    /\ ~TimeoutDue
    /\ now < Horizon
    /\ now' = now + PollIntervalMs
    /\ awaited \/ script = "free"
    /\ IF awaited
       THEN /\ InflightCount < MaxInflight
            /\ inflight' = [inflight EXCEPT ![OrdinalOf(now')] = @ + 1]
       ELSE UNCHANGED inflight
    /\ queried' = QueriesOfTick(documents)
    /\ UNCHANGED <<component, documents, msgVersions, intervalOn, timeoutPending,
                   summaries, timeoutMsgs, script>>

\* With the interval cleared, the clock moves to the timeout, and past it
\* interval by interval.
Advance ==
    /\ ~intervalOn
    /\ ~TimeoutDue
    /\ now < Horizon
    /\ now' = IF timeoutPending THEN PollTimeoutMs ELSE now + PollIntervalMs
    /\ UNCHANGED <<component, documents, msgVersions, intervalOn, timeoutPending,
                   inflight, summaries, timeoutMsgs, script, queried>>

\* The Promise.all of a tick resolves with the answers of the remote: the
\* message gets updatedVersions, and when allCompleted the interval is
\* cleared (v1 also appends the completion message).
TickSettle(o, answers) ==
    /\ inflight[o] > 0
    /\ AnswersAllowed(script, o, answers)
    /\ inflight' = [inflight EXCEPT ![o] = @ - 1]
    /\ msgVersions' = [t \in DOMAIN documents |-> UpdatedVersion(documents[t], answers[t])]
    /\ IF AllCompleted(documents, answers)
       THEN /\ intervalOn' = FALSE
            /\ summaries' = IF component = "v1" THEN summaries + 1 ELSE summaries
       ELSE UNCHANGED <<intervalOn, summaries>>
    /\ UNCHANGED <<component, documents, now, timeoutPending, timeoutMsgs, script, queried>>

\* A plausible slip: the timeout callback forgets clearInterval.
PollTimeoutKeepsInterval ==
    /\ TimeoutDue
    /\ timeoutPending' = FALSE
    /\ timeoutMsgs' = IF /\ component = "v1"
                         /\ \E t \in DOMAIN msgVersions :
                               msgVersions[t].status = "processing"
                      THEN timeoutMsgs + 1 ELSE timeoutMsgs
    /\ UNCHANGED <<component, documents, msgVersions, now, intervalOn, inflight,
                   summaries, script, queried>>

\* A plausible slip: the timeout callback marks what is left as failed.
PollTimeoutForcesFailed ==
    /\ TimeoutDue
    /\ timeoutPending' = FALSE
    /\ intervalOn' = FALSE
    /\ msgVersions' = [t \in DOMAIN msgVersions |->
                          IF msgVersions[t].status = "processing"
                          THEN Version("failed", msgVersions[t].downloadUrl)
                          ELSE msgVersions[t]]
    /\ timeoutMsgs' = IF /\ component = "v1"
                         /\ \E t \in DOMAIN msgVersions :
                               msgVersions[t].status = "processing"
                      THEN timeoutMsgs + 1 ELSE timeoutMsgs
    /\ UNCHANGED <<component, documents, now, inflight, summaries, script, queried>>

\* The setTimeout callback: clears the interval; v1 then appends a message
\* when the message's list still holds a processing task.
PollTimeout ==
    /\ TimeoutDue
    /\ timeoutPending' = FALSE
    /\ intervalOn' = FALSE
    /\ timeoutMsgs' = IF /\ component = "v1"
                         /\ \E t \in DOMAIN msgVersions :
                               msgVersions[t].status = "processing"
                      THEN timeoutMsgs + 1 ELSE timeoutMsgs
    /\ UNCHANGED <<component, documents, msgVersions, now, inflight, summaries,
                   script, queried>>

(***************************************************************************)
(* ReverseSearchService.calculateSimilarityScore                           *)
(***************************************************************************)

\* Strings are sequences of one-character strings, over "a", "A", "b", "c", " ".

\* String.prototype.toLowerCase.
toLowerCase(str) == [i \in 1..Len(str) |-> IF str[i] = "A" THEN "a" ELSE str[i]]

\* String.prototype.includes: term occurs in text at some offset (the empty
\* term occurs in every text).
Includes(text, term) ==
    \E i \in 0..(Len(text) - Len(term)) :
        \A k \in 1..Len(term) : text[i + k] = term[k]

\* Longest attribute list scored.
MaxTerms == 2
\* Longest colors and mood lists scored.
MaxTints == 1

Terms == { <<>>, <<"A">>, <<"a", "b">> }

Tints == { <<"b">> }

ListsOf(terms, n) == UNION { [1..k -> terms] : k \in 0..n }

Titles == { <<"A", "b">>, <<"a">> }

Categories == { Absent, <<"b">> }

Products == [title : Titles, category : Categories]

StyleSearchParams ==
    [aesthetics     : ListsOf(Terms, MaxTerms),
     searchKeywords : ListsOf(Terms, MaxTerms),
     colors         : ListsOf(Tints, MaxTints),
     mood           : ListsOf(Tints, MaxTints)]

\* `${product.title} ${product.category || ''}`.toLowerCase()
ProductText(product) ==
    toLowerCase(product.title \o <<" ">> \o
                (IF product.category = Absent THEN <<>> ELSE product.category))

\* The count one forEach accumulates: entries whose lower-cased term the
\* product text includes.
MatchCount(product, list) ==
    Cardinality({ i \in 1..Len(list) :
                    Includes(ProductText(product), toLowerCase(list[i])) })

\* A plausible slip: the four groups weigh the same.
WeightEven(group) == 25

\* aestheticWeight, keywordWeight, colorWeight, moodWeight, in hundredths.
Weight(group) ==
    CASE group = "aesthetics"     -> 40
      [] group = "searchKeywords" -> 30
      [] group = "colors"         -> 15
      [] group = "mood"           -> 15

\* A plausible slip: the length is used as the denominator as it is.
LengthUnfloored(list) == Len(list)

\* Math.max(list.length, 1)
LengthFloor(list) == IF Len(list) > 1 THEN Len(list) ELSE 1

\* Numbers the function can return: a fraction num/den (den > 0), or NaN.
NaN == [num |-> 0, den |-> 0]

NoScore == [num |-> -1, den |-> -1]

\* Product of the denominators of the groups other than g.
OtherFloors(params, g) ==
    LET f(h) == IF h = g THEN 1 ELSE LengthFloor(params[h])
    IN  f("aesthetics") * f("searchKeywords") * f("colors") * f("mood")

\* calculateSimilarityScore(product, params): the sum over the groups of
\* (matches / max(length, 1)) * weight, divided by the sum of the weights
\* and capped at 1; 0.5 were the sum of the weights zero.  A division 0/0
\* gives NaN, which every later operation keeps.
calculateSimilarityScore(product, params) ==
    LET maxScore == Weight("aesthetics") + Weight("searchKeywords")
                    + Weight("colors") + Weight("mood")
        den   == LengthFloor(params.aesthetics) * LengthFloor(params.searchKeywords)
                 * LengthFloor(params.colors) * LengthFloor(params.mood)
        score == Weight("aesthetics") * MatchCount(product, params.aesthetics)
                     * OtherFloors(params, "aesthetics")
                 + Weight("searchKeywords") * MatchCount(product, params.searchKeywords)
                     * OtherFloors(params, "searchKeywords")
                 + Weight("colors") * MatchCount(product, params.colors)
                     * OtherFloors(params, "colors")
                 + Weight("mood") * MatchCount(product, params.mood)
                     * OtherFloors(params, "mood")
    IN  IF den = 0 THEN NaN
        ELSE IF maxScore > 0
        THEN IF score > den * maxScore
             THEN [num |-> 1, den |-> 1]
             ELSE [num |-> score, den |-> den * maxScore]
        ELSE [num |-> 1, den |-> 2]

ScoreInit ==
    /\ scProduct \in Products
    /\ scParams \in StyleSearchParams
    /\ scScore = NoScore

ScoreIdle ==
    /\ scProduct = [title |-> <<>>, category |-> Absent]
    /\ scParams = [aesthetics |-> <<>>, searchKeywords |-> <<>>, colors |-> <<>>,
                   mood |-> <<>>]
    /\ scScore = NoScore

\* One call of calculateSimilarityScore on the product and the attributes;
\* it may be called again on the same inputs.
ScoreProduct ==
    /\ scScore' = calculateSimilarityScore(scProduct, scParams)
    /\ UNCHANGED <<scProduct, scParams>>

(***************************************************************************)
(* ChatInterface.handleSendMessage and generateStyleDocuments, with        *)
(* OpenAIService.analyzeStylePreferences and AmazonService.searchProducts  *)
(***************************************************************************)

\* Turns followed in one run.
MaxTurns == 2

\* What the Style Analyzer's chat call can give analyzeStylePreferences: it
\* rejects ("callFailed"), resolves to text JSON.parse rejects
\* ("unparseable"), or to JSON text, whose value is an AnalysisResponse
\* (shape "ok"), an object without styleAnalysis ("noStyle") or null.

AestheticsLists == { <<>>, <<"boho">> }

\* recommendedCategories; a missing field reads like the empty list in
\* `recommendedCategories && recommendedCategories.length > 0`.
CategoryLists == { <<>>, <<"clothing">> }

ParsedAnalyses ==
    { [shape |-> "ok", aesthetics |-> a, recommendedCategories |-> c,
       followUpQuestions |-> <<"question1", "question2">>] :
        a \in AestheticsLists, c \in CategoryLists }
    \cup
    { [shape |-> "noStyle", aesthetics |-> <<>>, recommendedCategories |-> c,
       followUpQuestions |-> <<>>] : c \in CategoryLists }
    \cup
    { [shape |-> "null", aesthetics |-> <<>>, recommendedCategories |-> <<>>,
       followUpQuestions |-> <<>>] }

AnalyzerAnswers ==
    { [kind |-> k, value |-> CHOOSE v \in ParsedAnalyses : v.shape = "null"] :
        k \in {"callFailed", "unparseable"} }
    \cup
    { [kind |-> "parsed", value |-> v] : v \in ParsedAnalyses }

\* The object the catch of analyzeStylePreferences returns.
FallbackAnalysis ==
    [shape |-> "ok", aesthetics |-> <<>>,
     recommendedCategories |-> <<"clothing", "accessories">>,
     followUpQuestions |-> <<"Could you tell me more about your style preferences?">>]

\* A plausible slip: no catch around JSON.parse, the value is returned as
\* it came.
analyzeStylePreferencesUnguarded(answer) == answer.value

\* analyzeStylePreferences(userInput): the parsed value as it is, or the
\* fallback when the call or JSON.parse threw.
analyzeStylePreferences(answer) ==
    IF answer.kind \in {"callFailed", "unparseable"}
    THEN FallbackAnalysis
    ELSE answer.value

\* What the catalog can answer to searchProducts.
FoundProducts == <<"p1", "p2">>

\* kind: the fetch rejects ("neterr"), the response is not OK ("http"), the
\* body is not what is expected ("payload": another responseStatus, whatever
\* else it holds), or it is a PRODUCT_FOUND_RESPONSE ("found"); products is
\* what the body holds as searchProductDetails.
CatalogAnswers ==
    { [kind |-> "neterr",  products |-> <<>>],
      [kind |-> "http",    products |-> <<>>],
      [kind |-> "payload", products |-> <<>>],
      [kind |-> "payload", products |-> FoundProducts],
      [kind |-> "found",   products |-> <<>>],
      [kind |-> "found",   products |-> FoundProducts] }

\* A plausible slip: the products of the body are returned whatever its
\* responseStatus.
searchProductsAnyStatus(answer) == answer.products

\* searchProducts(keywords): the formatted products of a
\* PRODUCT_FOUND_RESPONSE, [] for any other status and from the catch.
searchProducts(answer) ==
    IF answer.kind = "found" THEN answer.products ELSE <<>>

\* Ways createStylePortfolio ends: it rejects with a message naming the
\* template, the generation request or something else, or resolves with a
\* list of processed versions that may be empty.
PortfolioAnswers == {"threwTemplate", "threwGeneration", "threwOther",
                     "returnedEmpty", "returnedTasks"}

Threw(g) == g \in {"threwTemplate", "threwGeneration", "threwOther"}

\* Message ids are Date.now() plus an offset; turns are told apart by their
\* number, so that an id is <<turn, offset>>.
Message(id, kind, products, bundle) ==
    [id |-> id, kind |-> kind, products |-> products, bundle |-> bundle]

NoBundle == 0

\* The apology handleSendMessage appends from its catch.
Apology(turn) == Message(<<turn, 1>>, "apology", <<>>, NoBundle)

\* The message the catch of generateStyleDocuments appends; its text is
\* chosen by what the error message includes.
ErrorResponse(turn, g) ==
    Message(<<turn, 2>>,
            CASE g = "threwTemplate"   -> "documentError:template"
              [] g = "threwGeneration" -> "documentError:generation"
              [] OTHER                 -> "documentError:other",
            <<>>, NoBundle)

\* A plausible slip: the catch of generateStyleDocuments appends its message
\* and throws again, into the catch of handleSendMessage.
MessagesAfterGenerationErrorRethrown(msgs, turn, g) ==
    Append(Append(msgs, ErrorResponse(turn, g)), Apology(turn))

\* The chat after createStylePortfolio rejected: one message is appended.
MessagesAfterGenerationError(msgs, turn, g) ==
    Append(msgs, ErrorResponse(turn, g))

\* setMessages(prev => prev.map(msg => msg.id === messageId
\*                                   ? {...msg, styleDocuments} : msg))
AttachBundle(msgs, messageId, bundle) ==
    [i \in 1..Len(msgs) |->
        IF msgs[i].id = messageId
        THEN Message(msgs[i].id, msgs[i].kind, msgs[i].products, bundle)
        ELSE msgs[i]]

\* The chat after createStylePortfolio resolved: the bundle is set on the
\* message of the turn and the success message is appended, which in v1
\* carries styleDocuments as well.
MessagesAfterGeneration(rev, msgs, turn) ==
    Append(AttachBundle(msgs, <<turn, 1>>, turn),
           Message(<<turn, 2>>, "documents", <<>>,
                   IF rev = "v1" THEN turn ELSE NoBundle))

\* The messageId generateStyleDocuments passes to pollProcessingStatus:
\* documentMessage.id in v1, the messageId it was given in v2.
PolledMessageId(rev, turn) == IF rev = "v1" THEN <<turn, 2>> ELSE <<turn, 1>>

NoAnalysis ==
    [shape |-> None, aesthetics |-> <<>>, recommendedCategories |-> <<>>,
     followUpQuestions |-> <<>>]

TurnInit ==
    /\ tRev \in Components
    /\ tPc = "idle"
    /\ tTurns = 0
    /\ isLoading = FALSE
    /\ isGeneratingDocuments = FALSE
    /\ messages = <<>>
    /\ tAnalyzer = None
    /\ tAnalysis = NoAnalysis
    /\ tCatalog = None
    /\ tProducts = <<>>
    /\ tChat = None
    /\ tGen = None
    /\ tPolled = {}

TurnIdle ==
    /\ tRev = "v1"
    /\ tPc = "off"
    /\ tTurns = 0
    /\ isLoading = FALSE
    /\ isGeneratingDocuments = FALSE
    /\ messages = <<>>
    /\ tAnalyzer = None
    /\ tAnalysis = NoAnalysis
    /\ tCatalog = None
    /\ tProducts = <<>>
    /\ tChat = None
    /\ tGen = None
    /\ tPolled = {}

\* A plausible slip: setIsLoading(false) at the end of the try block and
\* no finally, so that the catch leaves the flag set.
CatchWithoutFinally ==
    /\ messages' = Append(messages, Apology(tTurns))
    /\ isLoading' = isLoading
    /\ tPc' = "idle"

\* The catch and the finally of handleSendMessage.
CatchAndFinally ==
    /\ messages' = Append(messages, Apology(tTurns))
    /\ isLoading' = FALSE
    /\ tPc' = "idle"

\* The finally of handleSendMessage after the try block ran through.
Finally ==
    /\ isLoading' = FALSE
    /\ tPc' = "idle"

\* handleSendMessage up to its first await: the user message is appended
\* and isLoading set (the input is not blank).
SendMessage ==
    /\ tPc = "idle"
    /\ ~isLoading
    /\ tTurns < MaxTurns
    /\ tTurns' = tTurns + 1
    /\ messages' = Append(messages, Message(<<tTurns', 0>>, "user", <<>>, NoBundle))
    /\ isLoading' = TRUE
    /\ tPc' = "analyzing"
    /\ tAnalyzer' = None
    /\ tAnalysis' = NoAnalysis
    /\ tCatalog' = None
    /\ tProducts' = <<>>
    /\ tChat' = None
    /\ tGen' = None
    /\ UNCHANGED <<tRev, isGeneratingDocuments, tPolled>>

\* styleAnalysis.recommendedCategories && ....length > 0
HasCategories(analysis) == Len(analysis.recommendedCategories) > 0

\* analyzeStylePreferences resolves; handleSendMessage goes on to the
\* catalog search, or to the reply call when there is nothing to search
\* for.  Reading a field of null, or of the missing styleAnalysis, throws.
AnalysisResolves(answer) ==
    /\ tPc = "analyzing"
    /\ tAnalyzer' = answer.kind
    /\ tAnalysis' = analyzeStylePreferences(answer)
    /\ IF tAnalysis'.shape = "null"
          \/ (tAnalysis'.shape = "noStyle" /\ HasCategories(tAnalysis'))
       THEN /\ CatchAndFinally
       ELSE /\ tPc' = IF HasCategories(tAnalysis') THEN "searching" ELSE "chatting"
            /\ UNCHANGED <<messages, isLoading>>
    /\ UNCHANGED <<tRev, tTurns, isGeneratingDocuments, tCatalog, tProducts, tChat,
                   tGen, tPolled>>

\* searchProducts resolves (it has no other way to end).
SearchResolves(answer) ==
    /\ tPc = "searching"
    /\ tCatalog' = answer.kind
    /\ tProducts' = searchProducts(answer)
    /\ tPc' = "chatting"
    /\ UNCHANGED <<tRev, tTurns, isLoading, isGeneratingDocuments, messages,
                   tAnalyzer, tAnalysis, tChat, tGen, tPolled>>

\* products.length > 0 && aesthetics && aesthetics.length > 0
WantsDocuments(products, analysis) ==
    Len(products) > 0 /\ analysis.shape = "ok" /\ Len(analysis.aesthetics) > 0

\* The reply call settles.  When it resolves the assistant message is
\* appended, with the products if there are any, and generateStyleDocuments
\* is entered when there are products and aesthetics: it sets
\* isGeneratingDocuments and awaits createStylePortfolio.
ChatSettles(ok) ==
    /\ tPc = "chatting"
    /\ tChat' = IF ok THEN "ok" ELSE "failed"
    /\ IF ~ok
       THEN /\ CatchAndFinally
            /\ UNCHANGED isGeneratingDocuments
       ELSE /\ messages' = Append(messages,
                                  Message(<<tTurns, 1>>, "reply", tProducts, NoBundle))
            /\ IF WantsDocuments(tProducts, tAnalysis)
               THEN /\ isGeneratingDocuments' = TRUE
                    /\ tPc' = "generating"
                    /\ UNCHANGED isLoading
               ELSE /\ Finally
                    /\ UNCHANGED isGeneratingDocuments
    /\ UNCHANGED <<tRev, tTurns, tAnalyzer, tAnalysis, tCatalog, tProducts, tGen,
                   tPolled>>

\* createStylePortfolio settles inside generateStyleDocuments; its catch or
\* the rest of its try block runs, then its finally, then the finally of
\* handleSendMessage.
PortfolioSettles(g) ==
    /\ tPc = "generating"
    /\ tGen' = g
    /\ IF Threw(g)
       THEN /\ messages' = MessagesAfterGenerationError(messages, tTurns, g)
            /\ UNCHANGED tPolled
       ELSE /\ messages' = MessagesAfterGeneration(tRev, messages, tTurns)
            /\ tPolled' = IF g = "returnedTasks"
                          THEN tPolled \cup {[bundle |-> tTurns,
                                              messageId |-> PolledMessageId(tRev, tTurns)]}
                          ELSE tPolled
    /\ isGeneratingDocuments' = FALSE
    /\ Finally
    /\ UNCHANGED <<tRev, tTurns, tAnalyzer, tAnalysis, tCatalog, tProducts, tChat>>

(***************************************************************************)
(* FoxitService.downloadDocument and ChatInterface.handleDownloadDocument  *)
(***************************************************************************)

\* Values of documentIdOrUrl: a document id, absolute URLs without and with
\* a filename parameter, and a proxied path.
DownloadTargets ==
    { "doc-1", "https://host/api/documents/doc-1/download",
      "https://host/download?filename=a.pdf", "/api/foxit/doc-1" }

\* documentIdOrUrl.startsWith('http') || documentIdOrUrl.includes('/api/foxit/')
IsUrl(target) == target # "doc-1"

\* url.includes('filename=')
NamesFile(target) == target = "https://host/download?filename=a.pdf"

Filenames == { Absent, "style-guide.pdf" }

NoUrl == [address |-> None, filename |-> Absent]

\* The URL downloadDocument fetches: the given URL, or the download address
\* of the document id; the filename is added as a parameter unless the given
\* URL names one.
DownloadUrl(target, filename) ==
    IF IsUrl(target)
    THEN [address |-> target,
          filename |-> IF filename # Absent /\ ~NamesFile(target) THEN filename ELSE Absent]
    ELSE [address |-> "pdfServicesUrl/api/documents/{documentId}/download",
          filename |-> filename]

\* Texts a non-OK response may carry (response.text()).
ErrorTexts == { "", "Internal error", "Session expired", "Service not ready",
                "Authentication required" }

DownloadErrorCodes == {404, 401, 403, 500, 400, 503}

DownloadResponses ==
    { [kind |-> "ok", code |-> 200, text |-> ""],
      [kind |-> "neterr", code |-> 0, text |-> ""] }
    \cup
    { [kind |-> "http", code |-> c, text |-> t] : c \in DownloadErrorCodes, t \in ErrorTexts }

NoDownloadResponse == [kind |-> None, code |-> 0, text |-> ""]

\* An error message: a fixed text and the response text built into it.
ErrorMessage(text, detail) == [text |-> text, detail |-> detail]

NoMessage == ErrorMessage(None, "")

\* String.prototype.includes on the messages, for the words
\* handleDownloadDocument looks for ('expired', 'not ready',
\* 'Authentication'): whether the fixed text or the response text built
\* into the message includes the marker.
MessageIncludes(message, marker) ==
    \/ /\ marker = "expired"
          /\ \/ message.text = "Document not found or has expired (24-hour retention)"
             \/ message.detail = "Session expired"
    \/ /\ marker = "not ready"
          /\ message.detail = "Service not ready"
    \/ /\ marker = "Authentication"
          /\ \/ message.text = "Authentication failed - check API credentials"
             \/ message.detail = "Authentication required"

\* The Error downloadDocument throws for an answer that is not OK; its catch
\* throws an Error again as it is.
downloadDocument(response) ==
    CASE response.kind = "neterr" -> ErrorMessage("Failed to fetch", "")
      [] response.kind = "http" /\ response.code = 404 ->
            ErrorMessage("Document not found or has expired (24-hour retention)", "")
      [] response.kind = "http" /\ response.code \in {401, 403} ->
            ErrorMessage("Authentication failed - check API credentials", "")
      [] response.kind = "http" /\ response.code = 500 ->
            ErrorMessage("Server error - document may not be ready for download yet", "")
      [] response.kind = "http" ->
            ErrorMessage("Download failed: {status} - {errorText}", response.text)
      [] OTHER -> NoMessage

\* The Error the catch of handleDownloadDocument throws for the Error it
\* caught.
handleDownloadDocument(error) ==
    IF MessageIncludes(error, "expired")
    THEN ErrorMessage("Document has expired (available for 24 hours only)", "")
    ELSE IF MessageIncludes(error, "not ready")
    THEN ErrorMessage("Document is still processing. Please try again in a moment.", "")
    ELSE IF MessageIncludes(error, "Authentication")
    THEN ErrorMessage("Authentication error. Please refresh and try again.", "")
    ELSE error

DownloadInit ==
    /\ dlTarget \in DownloadTargets
    /\ dlFilename \in Filenames
    /\ dlPc = "start"
    /\ dlUrl = NoUrl
    /\ dlResponse = NoDownloadResponse
    /\ dlThrown = NoMessage
    /\ dlShown = NoMessage

DownloadIdle ==
    /\ dlTarget = "doc-1"
    /\ dlFilename = Absent
    /\ dlPc = "off"
    /\ dlUrl = NoUrl
    /\ dlResponse = NoDownloadResponse
    /\ dlThrown = NoMessage
    /\ dlShown = NoMessage

\* handleDownloadDocument calls downloadDocument, which builds the URL and
\* awaits the fetch.
StartDownload ==
    /\ dlPc = "start"
    /\ dlUrl' = DownloadUrl(dlTarget, dlFilename)
    /\ dlPc' = "fetching"
    /\ UNCHANGED <<dlTarget, dlFilename, dlResponse, dlThrown, dlShown>>

\* The fetch settles: downloadDocument resolves with the blob or throws, and
\* the catch of handleDownloadDocument throws its own Error to the caller.
DownloadSettles(response) ==
    /\ dlPc = "fetching"
    /\ dlResponse' = response
    /\ dlThrown' = downloadDocument(response)
    /\ dlShown' = IF dlThrown' = NoMessage THEN NoMessage
                  ELSE handleDownloadDocument(dlThrown')
    /\ dlPc' = "done"
    /\ UNCHANGED <<dlTarget, dlFilename, dlUrl>>

(***************************************************************************)
(* ReverseSearchService.searchByStyle                                      *)
(***************************************************************************)

\* Longest list of found products.
MaxCatalog == 3

\* maxResults as ChatInterface passes it.
MaxResults == 16

\* Products of the catalog: titles "Ab", "a" and "c", prices in dollars,
\* ratings in tenths of a star (0: no rating).
CatalogProducts ==
    { [title |-> <<"A", "b">>, category |-> Absent, price |-> 30, prime |-> TRUE,  rating |-> 45],
      [title |-> <<"a">>,      category |-> Absent, price |-> 20, prime |-> TRUE,  rating |-> 40],
      [title |-> <<"a">>,      category |-> Absent, price |-> 10, prime |-> FALSE, rating |-> 39],
      [title |-> <<"c">>,      category |-> Absent, price |-> 10, prime |-> FALSE, rating |-> 0],
      [title |-> <<"c">>,      category |-> Absent, price |-> 20, prime |-> TRUE,  rating |-> 45] }

FoundLists == ListsOf(CatalogProducts, MaxCatalog)

\* Style attributes searched for; budget 0 stands for no budget (`!budget`).
SearchParams ==
    [aesthetics     : { <<>>, << <<"A">> >> },
     searchKeywords : { <<>> },
     colors         : { <<>>, << <<"b">> >> },
     mood           : { <<>>, << <<"a">>, <<"b">> >> },
     budget         : { 0, 15 }]

\* deduplicateProducts: the first product of each title (lower-cased) and
\* price is kept.
RECURSIVE deduplicateProducts(_)
deduplicateProducts(products) ==
    IF products = <<>> THEN <<>>
    ELSE LET front == deduplicateProducts(SubSeq(products, 1, Len(products) - 1))
             last  == products[Len(products)]
             key(p) == <<toLowerCase(p.title), p.price>>
         IN  IF \E i \in 1..Len(front) : key(front[i]) = key(last)
             THEN front
             ELSE Append(front, last)

\* determinePriceTier
determinePriceTier(price) ==
    IF price < 50 THEN "budget" ELSE IF price < 150 THEN "mid" ELSE "premium"

\* A reason: the phrase built around a term, or a fixed phrase, with the
\* rating it quotes.
Reason(phrase, term, rating) == [phrase |-> phrase, term |-> term, rating |-> rating]

\* The reasons one forEach of getStyleMatchReasons pushes: one per term of
\* the list that the product text includes, in the order of the list.
ReasonsOfGroup(product, list, phrase) ==
    LET hit(term) == Includes(ProductText(product), toLowerCase(term))
        hits == SelectSeq(list, hit)
    IN  [i \in 1..Len(hits) |-> Reason(phrase, hits[i], 0)]

\* The reasons pushed for the matched terms: aesthetics, colors, mood.
TermReasons(product, params) ==
    ReasonsOfGroup(product, params.aesthetics, "Matches aesthetic")
    \o ReasonsOfGroup(product, params.colors, "Features color")
    \o ReasonsOfGroup(product, params.mood, "Captures vibe")

\* The reasons pushed for product.prime and for a rating of 4.0 or more.
BonusReasons(product) ==
    (IF product.prime THEN << Reason("Prime eligible for fast delivery", <<>>, 0) >> ELSE <<>>)
    \o (IF product.rating # 0 /\ product.rating >= 40
        THEN << Reason("Highly rated", <<>>, product.rating) >> ELSE <<>>)

\* Array.prototype.slice(0, n)
Slice(list, n) == SubSeq(list, 1, IF Len(list) < n THEN Len(list) ELSE n)

\* getStyleMatchReasons(product, params)
getStyleMatchReasons(product, params) ==
    Slice(TermReasons(product, params) \o BonusReasons(product), 3)

\* scoreProductsBySimilarity: each product with its score, tier and reasons.
scoreProductsBySimilarity(products, params) ==
    [i \in 1..Len(products) |->
        [title |-> products[i].title, category |-> products[i].category,
         price |-> products[i].price, prime |-> products[i].prime,
         rating |-> products[i].rating,
         similarity_score |-> calculateSimilarityScore(products[i], params),
         price_tier |-> determinePriceTier(products[i].price),
         style_match_reasons |-> getStyleMatchReasons(products[i], params)]]

Sign(n) == IF n > 0 THEN 1 ELSE IF n < 0 THEN -1 ELSE 0

\* Sign of the difference s - t of two scores.
ScoreDifference(s, t) == Sign(s.num * t.den - t.num * s.den)

\* Math.abs(s - t) > 0.1
DiffersByMoreThanTenth(s, t) ==
    LET d == s.num * t.den - t.num * s.den
    IN  10 * (IF d < 0 THEN -d ELSE d) > s.den * t.den

\* The comparator of optimizeForBudget: b.similarity_score - a.similarity_score.
CompareByScore(a, b) == ScoreDifference(b.similarity_score, a.similarity_score)

\* The comparator of searchByStyle: by score when the scores are more than
\* 0.1 apart, by price otherwise.
CompareByScoreThenPrice(a, b) ==
    IF DiffersByMoreThanTenth(a.similarity_score, b.similarity_score)
    THEN ScoreDifference(b.similarity_score, a.similarity_score)
    ELSE Sign(a.price - b.price)

\* b.price - a.price, the comparator of BudgetOptimizer.optimizeForBudget.
CompareByPriceDescending(a, b) == Sign(b.price - a.price)

\* The comparator function handed to a sort.
Compare(comparator, a, b) ==
    CASE comparator = "byScore"          -> CompareByScore(a, b)
      [] comparator = "byScoreThenPrice" -> CompareByScoreThenPrice(a, b)
      [] comparator = "byPriceDescending" -> CompareByPriceDescending(a, b)

Reorderings(n) == { p \in [1..n -> 1..n] : \A i, j \in 1..n : p[i] = p[j] => i = j }

\* A comparator is consistent on a list when "not after" is transitive.
Consistent(list, comparator) ==
    \A i, j, k \in 1..Len(list) :
        Compare(comparator, list[i], list[j]) <= 0
        /\ Compare(comparator, list[j], list[k]) <= 0
            => Compare(comparator, list[i], list[k]) <= 0

\* Array.prototype.sort: with a consistent comparator the stable sorted
\* order; with an inconsistent one the order is implementation-defined, any
\* permutation of the list.
SortOutcomes(list, comparator) ==
    LET n == Len(list)
        cmp(a, b) == Compare(comparator, a, b)
        order(p) == [i \in 1..n |-> list[p[i]]]
        sorted(p) == \A i, j \in 1..n :
                        i < j => /\ cmp(list[p[i]], list[p[j]]) <= 0
                                 /\ cmp(list[p[i]], list[p[j]]) = 0 => p[i] < p[j]
    IN  IF Consistent(list, comparator)
        THEN { order(p) : p \in { q \in Reorderings(n) : sorted(q) } }
        ELSE { order(p) : p \in Reorderings(n) }

\* optimizeForBudget: the products within the budget by score, then the
\* three tenths of the list's length best over-budget products.
optimizeForBudget(products, budget) ==
    IF budget = 0 THEN { products }
    ELSE LET within(p) == p.price <= budget
             over(p)   == p.price > budget
         IN  { w \o Slice(o, (3 * Len(products)) \div 10) :
                 w \in SortOutcomes(SelectSeq(products, within), "byScore"),
                 o \in SortOutcomes(SelectSeq(products, over), "byScore") }

\* The lists searchByStyle can return for the products found:
\* deduplicated, scored, cut to the budget, sorted and sliced.
searchByStyle(found, params) ==
    UNION { { Slice(sorted, MaxResults) :
                sorted \in SortOutcomes(optimized, "byScoreThenPrice") } :
            optimized \in optimizeForBudget(
                scoreProductsBySimilarity(deduplicateProducts(found), params),
                params.budget) }

SearchInit ==
    /\ srFound \in FoundLists
    /\ srParams \in SearchParams
    /\ srPc = "searching"
    /\ srResult = <<>>

SearchIdle ==
    /\ srFound = <<>>
    /\ srParams = [aesthetics |-> <<>>, searchKeywords |-> <<>>, colors |-> <<>>,
                   mood |-> <<>>, budget |-> 0]
    /\ srPc = "off"
    /\ srResult = <<>>

\* The catalog searches have resolved (searchProducts does not reject) and
\* searchByStyle returns its result.
SearchByStyle ==
    /\ srPc = "searching"
    /\ srResult' \in searchByStyle(srFound, srParams)
    /\ srPc' = "done"
    /\ UNCHANGED <<srFound, srParams>>

(***************************************************************************)
(* BudgetOptimizer.optimizeForBudget                                       *)
(***************************************************************************)

\* Longest product list the optimizer is shown.
MaxProducts == 2

\* Prices in dollars.
AlternativeLists == { <<>>, <<10>>, <<30, 10>> }

BudgetProducts ==
    { [price |-> p, price_tier |-> determinePriceTier(p), alternative_products |-> a] :
        p \in {10, 20, 30}, a \in AlternativeLists }

\* What the budget field of the upload form can hold: nothing, or any number
\* (the input has no minimum).
Budgets == { -5, 0, 15, 25, 40 }

RECURSIVE TotalPrice(_)
\* products.reduce((sum, product) => sum + product.price, 0)
TotalPrice(products) ==
    IF products = <<>> THEN 0
    ELSE TotalPrice(SubSeq(products, 1, Len(products) - 1))
         + products[Len(products)].price

\* A plausible slip: the first alternative is taken whatever it costs.
AffordableAlternativeUnchecked(alternatives, remainingBudget) ==
    IF alternatives = <<>> THEN <<>> ELSE << alternatives[1] >>

\* alternatives.find(alt => alt.price <= remainingBudget): the first
\* alternative that fits, as a list of one, or the empty list.
AffordableAlternative(alternatives, remainingBudget) ==
    LET fits(price) == price <= remainingBudget
    IN  Slice(SelectSeq(alternatives, fits), 1)

RECURSIVE FillBudget(_, _, _)
\* The forEach over the sorted products: a product that fits what remains
\* is kept, otherwise its first affordable alternative takes its place, or
\* nothing does.
FillBudget(sortedProducts, remainingBudget, optimizedProducts) ==
    IF sortedProducts = <<>> THEN optimizedProducts
    ELSE LET product == Head(sortedProducts)
             found   == AffordableAlternative(product.alternative_products,
                                              remainingBudget)
         IN  IF remainingBudget >= product.price
             THEN FillBudget(Tail(sortedProducts), remainingBudget - product.price,
                             Append(optimizedProducts, product))
             ELSE IF found # <<>>
             THEN FillBudget(Tail(sortedProducts), remainingBudget - found[1],
                             Append(optimizedProducts,
                                    [price |-> found[1], price_tier |-> "budget",
                                     alternative_products |->
                                         product.alternative_products]))
             ELSE FillBudget(Tail(sortedProducts), remainingBudget,
                             optimizedProducts)

\* optimizeForBudget(targetBudget): the lists it can hand to
\* onProductsUpdate; none when the total is within the target.
BudgetOptimizer_optimizeForBudget(products, targetBudget) ==
    IF TotalPrice(products) <= targetBudget THEN {}
    ELSE { FillBudget(sortedProducts, targetBudget, <<>>) :
             sortedProducts \in SortOutcomes(products, "byPriceDescending") }

\* isOverBudget = budget && breakdown.totalCost > budget
isOverBudget == boBudget # 0 /\ TotalPrice(boProducts) > boBudget

BudgetInit ==
    /\ boProducts \in ListsOf(BudgetProducts, MaxProducts)
    /\ boBudget \in Budgets
    /\ boPc = "shown"
    /\ boHanded = <<>>

BudgetIdle ==
    /\ boProducts = <<>>
    /\ boBudget = 0
    /\ boPc = "off"
    /\ boHanded = <<>>

\* The Optimize button, rendered when isOverBudget, is clicked.
Optimize ==
    /\ boPc = "shown"
    /\ isOverBudget
    /\ boHanded' \in BudgetOptimizer_optimizeForBudget(boProducts, boBudget)
    /\ boPc' = "updated"
    /\ UNCHANGED <<boProducts, boBudget>>

(***************************************************************************)
(* StyleDocumentToolbar: the modals and the three operations               *)
(***************************************************************************)

\* Most checkboxes ticked when a modal is confirmed.
MaxTicked == 2

\* Entries of socialFormats, splitOptions and mergeOptions.
OptionCount == 4

\* maxAttempts of the polling loops.
MaxAttempts == 20

Operations == {"social", "split", "merge"}

\* The checkboxes ticked when the modal opens (defaultChecked).
DefaultChecked(operation) ==
    CASE operation = "social" -> {1, 2}
      [] operation = "split"  -> {1, 4}
      [] operation = "merge"  -> {1}

\* What the user can have ticked when confirming.
Tickings(operation) ==
    { DefaultChecked(operation) } \cup
    { t \in SUBSET (1..OptionCount) : Cardinality(t) <= MaxTicked }

\* Array.from(checkboxes).map((_, index) => options[index]).filter(Boolean)
\* over the checked checkboxes: the k-th checked box gives the k-th option.
SelectedOptions(ticked) ==
    LET checked == Cardinality(ticked)
    IN  [index \in 1..(IF checked < OptionCount THEN checked ELSE OptionCount)
            |-> index]

\* A plausible slip: the loop runs while attempts <= maxAttempts.
AttemptsLeftInclusive(attempts) == attempts <= MaxAttempts

\* while (attempts < maxAttempts)
AttemptsLeft(attempts) == attempts < MaxAttempts

\* What checkTaskStatus resolves to, as the loops read it.
ToolbarStatuses == {"completed", "failed", "processing"}

ToolbarInit ==
    /\ tbOperation \in Operations
    /\ tbTicked \in Tickings(tbOperation)
    /\ tbSelected = <<>>
    /\ tbPc = "modal"
    /\ tbOption = 0
    /\ tbAttempts = 0
    /\ tbQueries = 0
    /\ tbOutcomes = <<>>
    /\ tbNewTasks = <<>>
    /\ isProcessing = FALSE

ToolbarIdle ==
    /\ tbOperation = "social"
    /\ tbTicked = {}
    /\ tbSelected = <<>>
    /\ tbPc = "off"
    /\ tbOption = 0
    /\ tbAttempts = 0
    /\ tbQueries = 0
    /\ tbOutcomes = <<>>
    /\ tbNewTasks = <<>>
    /\ isProcessing = FALSE

\* The for loop goes on to the next selected option, or ends: the new
\* tasks are added to completedTasks and setIsProcessing(false) is scheduled.
NextOption(selected, option) ==
    IF option < Len(selected)
    THEN /\ tbOption' = option + 1
         /\ tbPc' = "submitting"
    ELSE /\ tbOption' = option
         /\ tbPc' = "settling"

\* The confirm button of the modal: the options are read off the checked
\* checkboxes and the handler of the operation is called (documents.documentId
\* is set, the buttons that open the modals are disabled without it).
Confirm ==
    /\ tbPc = "modal"
    /\ tbSelected' = SelectedOptions(tbTicked)
    /\ isProcessing' = TRUE
    /\ NextOption(tbSelected', 0)
    /\ UNCHANGED <<tbOperation, tbTicked, tbAttempts, tbQueries, tbOutcomes,
                   tbNewTasks>>

\* The submission of the option's job settles: convertToImages,
\* extractFromDocument or combineDocuments resolves with a task and the
\* polling loop starts, or it rejects (or, for a merge, there is no
\* additional document) and the option is given up.
SubmissionSettles(ok) ==
    /\ tbPc = "submitting"
    /\ IF ok
       THEN /\ tbPc' = "polling"
            /\ tbAttempts' = 0
            /\ tbQueries' = 0
            /\ UNCHANGED <<tbOption, tbOutcomes>>
       ELSE /\ tbOutcomes' = Append(tbOutcomes, "notSubmitted")
            /\ NextOption(tbSelected, tbOption)
            /\ UNCHANGED <<tbAttempts, tbQueries>>
    /\ UNCHANGED <<tbOperation, tbTicked, tbSelected, tbNewTasks, isProcessing>>

\* One round of the polling loop: checkTaskStatus resolves; on 'completed'
\* the task is recorded, on 'failed' the loop throws into the option's
\* catch, otherwise two seconds pass and attempts is incremented.
StatusAnswers(status) ==
    /\ tbPc = "polling"
    /\ AttemptsLeft(tbAttempts)
    /\ tbQueries' = tbQueries + 1
    /\ CASE status = "completed" ->
              /\ tbNewTasks' = Append(tbNewTasks, tbSelected[tbOption])
              /\ tbOutcomes' = Append(tbOutcomes, "completed")
              /\ NextOption(tbSelected, tbOption)
              /\ UNCHANGED tbAttempts
         [] status = "failed" ->
              /\ tbOutcomes' = Append(tbOutcomes, "failed")
              /\ NextOption(tbSelected, tbOption)
              /\ UNCHANGED <<tbAttempts, tbNewTasks>>
         [] OTHER ->
              /\ tbAttempts' = tbAttempts + 1
              /\ IF AttemptsLeft(tbAttempts')
                 THEN UNCHANGED <<tbPc, tbOption, tbOutcomes>>
                 ELSE /\ tbOutcomes' = Append(tbOutcomes, "stillProcessing")
                      /\ NextOption(tbSelected, tbOption)
              /\ UNCHANGED tbNewTasks
    /\ UNCHANGED <<tbOperation, tbTicked, tbSelected, isProcessing>>

\* setTimeout(() => setIsProcessing(false), 2000) fires.
ProcessingTimeout ==
    /\ tbPc = "settling"
    /\ isProcessing' = FALSE
    /\ tbPc' = "finished"
    /\ UNCHANGED <<tbOperation, tbTicked, tbSelected, tbOption, tbAttempts,
                   tbQueries, tbOutcomes, tbNewTasks>>

(***************************************************************************)
(* ChatInterface (second revision): handleSendMessage and                  *)
(* handleImageStyleAnalysis side by side, with their pollers               *)
(***************************************************************************)

\* Most ticks of one poller that settle.
MaxTicks == 2

Flows == {"text", "image"}

\* Task types of the batch each flow's createStylePortfolio returns.
BatchOf(flow) ==
    IF flow = "text" THEN <<"compressed">> ELSE <<"compressed", "social-images">>

\* One entry of styleDocuments.processedVersions.
Task(type, taskId, st, url) ==
    [type |-> type, taskId |-> taskId, status |-> st, downloadUrl |-> url]

NoDocuments == [documentId |-> None, processedVersions |-> <<>>]

\* styleDocuments as generateStyleDocuments builds it: every version with
\* status 'processing'.
StyleDocuments(flow, withTasks) ==
    [documentId |-> <<flow, "doc">>,
     processedVersions |->
        IF withTasks
        THEN [i \in 1..Len(BatchOf(flow)) |->
                Task(BatchOf(flow)[i], <<flow, i>>, "processing", Absent)]
        ELSE <<>>]

\* A message of the chat; ids are Date.now() plus an offset, told apart by
\* the flow that made them.
ChatMessage(id, kind, products, styleDocuments) ==
    [id |-> id, kind |-> kind, products |-> products,
     styleDocuments |-> styleDocuments]

\* What checkTaskStatus resolves to, as the tick reads it.
TickStatuses == {"completed", "failed", "processing"}

\* The entry the tick returns for a version, given the status answered.
TickedVersion(version, status) ==
    IF version.status = "processing"
    THEN IF status = "completed"
         THEN Task(version.type, version.taskId, "completed", FallbackUrl)
         ELSE IF status = "failed"
         THEN Task(version.type, version.taskId, "failed", version.downloadUrl)
         ELSE version
    ELSE version

\* A plausible slip: the update is applied to every message that carries
\* documents, without comparing ids.
WithUpdatedVersionsAnyMessage(msgs, messageId, captured, updatedVersions) ==
    [i \in 1..Len(msgs) |->
        IF msgs[i].styleDocuments # NoDocuments
        THEN ChatMessage(msgs[i].id, msgs[i].kind, msgs[i].products,
                         [documentId |-> captured.documentId,
                          processedVersions |-> updatedVersions])
        ELSE msgs[i]]

\* setMessages(prev => prev.map(msg => msg.id === messageId
\*   ? {...msg, styleDocuments: {...documents, processedVersions: updatedVersions}}
\*   : msg))
WithUpdatedVersions(msgs, messageId, captured, updatedVersions) ==
    [i \in 1..Len(msgs) |->
        IF msgs[i].id = messageId
        THEN ChatMessage(msgs[i].id, msgs[i].kind, msgs[i].products,
                         [documentId |-> captured.documentId,
                          processedVersions |-> updatedVersions])
        ELSE msgs[i]]

\* setMessages(prev => prev.map(msg => msg.id === messageId
\*   ? {...msg, styleDocuments, portfolioData} : msg))
WithDocuments(msgs, messageId, styleDocuments) ==
    [i \in 1..Len(msgs) |->
        IF msgs[i].id = messageId
        THEN ChatMessage(msgs[i].id, msgs[i].kind, msgs[i].products, styleDocuments)
        ELSE msgs[i]]

\* handleProductsUpdate(messageId, updatedProducts)
handleProductsUpdate(msgs, messageId, updatedProducts) ==
    [i \in 1..Len(msgs) |->
        IF msgs[i].id = messageId
        THEN ChatMessage(msgs[i].id, msgs[i].kind, updatedProducts,
                         msgs[i].styleDocuments)
        ELSE msgs[i]]

SessionInit ==
    /\ ssFlow = [f \in Flows |-> "idle"]
    /\ ssMessages = <<>>
    /\ ssIsLoading = FALSE
    /\ ssIsAnalyzingImage = FALSE
    /\ ssIsGeneratingDocuments = FALSE
    /\ ssDocuments = [f \in Flows |-> NoDocuments]
    /\ ssPolling = [f \in Flows |-> FALSE]
    /\ ssTicks = [f \in Flows |-> 0]

SessionIdle ==
    /\ ssFlow = [f \in Flows |-> "off"]
    /\ ssMessages = <<>>
    /\ ssIsLoading = FALSE
    /\ ssIsAnalyzingImage = FALSE
    /\ ssIsGeneratingDocuments = FALSE
    /\ ssDocuments = [f \in Flows |-> NoDocuments]
    /\ ssPolling = [f \in Flows |-> FALSE]
    /\ ssTicks = [f \in Flows |-> 0]

\* The flag each handler resets in its finally.
FlowFinally(flow) ==
    /\ ssIsLoading' = IF flow = "text" THEN FALSE ELSE ssIsLoading
    /\ ssIsAnalyzingImage' = IF flow = "image" THEN FALSE ELSE ssIsAnalyzingImage

\* handleSendMessage up to its first await.  The textarea and the send
\* button are disabled while any of the three flags is set.
SessionSend ==
    /\ ssFlow["text"] = "idle"
    /\ ~ssIsLoading /\ ~ssIsGeneratingDocuments /\ ~ssIsAnalyzingImage
    /\ ssMessages' = Append(ssMessages, ChatMessage(<<"text", 0>>, "user", <<>>, NoDocuments))
    /\ ssIsLoading' = TRUE
    /\ ssFlow' = [ssFlow EXCEPT !["text"] = "replying"]
    /\ UNCHANGED <<ssIsAnalyzingImage, ssIsGeneratingDocuments, ssDocuments,
                   ssPolling, ssTicks>>

\* The analysis, the catalog search and the reply call of the text turn have
\* settled: the turn ends with the apology or a reply without products, or
\* appends the reply with products and enters generateStyleDocuments.
SessionReply(outcome) ==
    /\ ssFlow["text"] = "replying"
    /\ CASE outcome = "failed" ->
              /\ ssMessages' = Append(ssMessages,
                    ChatMessage(<<"text", 1>>, "apology", <<>>, NoDocuments))
              /\ FlowFinally("text")
              /\ ssFlow' = [ssFlow EXCEPT !["text"] = "done"]
              /\ UNCHANGED ssIsGeneratingDocuments
         [] outcome = "plain" ->
              /\ ssMessages' = Append(ssMessages,
                    ChatMessage(<<"text", 1>>, "reply", <<>>, NoDocuments))
              /\ FlowFinally("text")
              /\ ssFlow' = [ssFlow EXCEPT !["text"] = "done"]
              /\ UNCHANGED ssIsGeneratingDocuments
         [] OTHER ->
              /\ ssMessages' = Append(ssMessages,
                    ChatMessage(<<"text", 1>>, "reply", FoundProducts, NoDocuments))
              /\ ssIsGeneratingDocuments' = TRUE
              /\ ssFlow' = [ssFlow EXCEPT !["text"] = "generating"]
              /\ UNCHANGED <<ssIsLoading, ssIsAnalyzingImage>>
    /\ UNCHANGED <<ssDocuments, ssPolling, ssTicks>>

\* handleImageStyleAnalysis up to its await: the upload form's button is
\* disabled only while isAnalyzingImage is set.
SessionImage ==
    /\ ssFlow["image"] = "idle"
    /\ ~ssIsAnalyzingImage
    /\ ssIsAnalyzingImage' = TRUE
    /\ ssMessages' = Append(ssMessages,
                            ChatMessage(<<"image", 0>>, "analysis", <<>>, NoDocuments))
    /\ ssFlow' = [ssFlow EXCEPT !["image"] = "searching"]
    /\ UNCHANGED <<ssIsLoading, ssIsGeneratingDocuments, ssDocuments, ssPolling,
                   ssTicks>>

\* searchByStyle settles: it rejects, or resolves without products, or with
\* products, in which case generateStyleDocuments is entered.
SessionSearch(outcome) ==
    /\ ssFlow["image"] = "searching"
    /\ CASE outcome = "threw" ->
              /\ ssMessages' = Append(ssMessages,
                    ChatMessage(<<"image", 1>>, "imageError", <<>>, NoDocuments))
              /\ FlowFinally("image")
              /\ ssFlow' = [ssFlow EXCEPT !["image"] = "done"]
              /\ UNCHANGED ssIsGeneratingDocuments
         [] outcome = "empty" ->
              /\ ssMessages' = Append(ssMessages,
                    ChatMessage(<<"image", 1>>, "results", <<>>, NoDocuments))
              /\ FlowFinally("image")
              /\ ssFlow' = [ssFlow EXCEPT !["image"] = "done"]
              /\ UNCHANGED ssIsGeneratingDocuments
         [] OTHER ->
              /\ ssMessages' = Append(ssMessages,
                    ChatMessage(<<"image", 1>>, "results", FoundProducts, NoDocuments))
              /\ ssIsGeneratingDocuments' = TRUE
              /\ ssFlow' = [ssFlow EXCEPT !["image"] = "generating"]
              /\ UNCHANGED <<ssIsLoading, ssIsAnalyzingImage>>
    /\ UNCHANGED <<ssDocuments, ssPolling, ssTicks>>

\* createStylePortfolio settles inside the generateStyleDocuments of a flow:
\* on a rejection the catch appends its message; otherwise the documents are
\* set on the flow's message, the success message is appended and, with
\* processed versions, pollProcessingStatus starts.  Then the finally of
\* generateStyleDocuments and that of the handler run.
SessionPortfolio(flow, g) ==
    /\ ssFlow[flow] = "generating"
    /\ IF Threw(g)
       THEN /\ ssMessages' = Append(ssMessages,
                    ChatMessage(<<flow, 2>>, "documentError", <<>>, NoDocuments))
            /\ UNCHANGED <<ssDocuments, ssPolling>>
       ELSE /\ ssMessages' =
                    Append(WithDocuments(ssMessages, <<flow, 1>>,
                                         StyleDocuments(flow, g = "returnedTasks")),
                           ChatMessage(<<flow, 2>>, "documents", <<>>, NoDocuments))
            /\ IF g = "returnedTasks"
               THEN /\ ssDocuments' = [ssDocuments EXCEPT
                                         ![flow] = StyleDocuments(flow, TRUE)]
                    /\ ssPolling' = [ssPolling EXCEPT ![flow] = TRUE]
               ELSE UNCHANGED <<ssDocuments, ssPolling>>
    /\ ssIsGeneratingDocuments' = FALSE
    /\ FlowFinally(flow)
    /\ ssFlow' = [ssFlow EXCEPT ![flow] = "done"]
    /\ UNCHANGED ssTicks

\* A tick of the poller of a flow settles with the statuses answered: the
\* versions are computed from the captured documents and set on the message
\* with the poller's messageId; the interval is cleared when none stayed
\* processing.
SessionTick(flow, answers) ==
    /\ ssPolling[flow]
    /\ ssTicks[flow] < MaxTicks
    /\ LET versions == ssDocuments[flow].processedVersions
           updatedVersions == [i \in 1..Len(versions) |->
                                  TickedVersion(versions[i], answers[i])]
       IN  /\ ssMessages' = WithUpdatedVersions(ssMessages, <<flow, 1>>,
                                                ssDocuments[flow], updatedVersions)
           /\ ssPolling' = [ssPolling EXCEPT ![flow] =
                               \E i \in 1..Len(versions) : answers[i] = "processing"]
    /\ ssTicks' = [ssTicks EXCEPT ![flow] = @ + 1]
    /\ UNCHANGED <<ssFlow, ssIsLoading, ssIsAnalyzingImage, ssIsGeneratingDocuments,
                   ssDocuments>>

\* The five-minute timeout of a poller clears its interval.
SessionPollTimeout(flow) ==
    /\ ssPolling[flow]
    /\ ssPolling' = [ssPolling EXCEPT ![flow] = FALSE]
    /\ UNCHANGED <<ssFlow, ssMessages, ssIsLoading, ssIsAnalyzingImage,
                   ssIsGeneratingDocuments, ssDocuments, ssTicks>>

\* The budget optimizer under the results message hands over a shorter
\* product list.
SessionProductsUpdate ==
    /\ \E i \in 1..Len(ssMessages) :
          ssMessages[i].id = <<"image", 1>> /\ ssMessages[i].products = FoundProducts
    /\ ssMessages' = handleProductsUpdate(ssMessages, <<"image", 1>>,
                                          SubSeq(FoundProducts, 1, 1))
    /\ UNCHANGED <<ssFlow, ssIsLoading, ssIsAnalyzingImage, ssIsGeneratingDocuments,
                   ssDocuments, ssPolling, ssTicks>>

vars == <<statusVars, portfolioVars, pollVars, scoreVars, turnVars,
          downloadVars, searchVars, budgetVars, toolbarVars, sessionVars>>

\* What the steps of each part leave alone.
notStatus    == <<portfolioVars, pollVars, scoreVars, turnVars, downloadVars,
                  searchVars, budgetVars, toolbarVars, sessionVars>>
notPortfolio == <<statusVars, pollVars, scoreVars, turnVars, downloadVars,
                  searchVars, budgetVars, toolbarVars, sessionVars>>
notPoll      == <<statusVars, portfolioVars, scoreVars, turnVars,
                  downloadVars, searchVars, budgetVars, toolbarVars,
                  sessionVars>>
notScore     == <<statusVars, portfolioVars, pollVars, turnVars,
                  downloadVars, searchVars, budgetVars, toolbarVars,
                  sessionVars>>
notTurn      == <<statusVars, portfolioVars, pollVars, scoreVars,
                  downloadVars, searchVars, budgetVars, toolbarVars,
                  sessionVars>>
notDownload  == <<statusVars, portfolioVars, pollVars, scoreVars, turnVars,
                  searchVars, budgetVars, toolbarVars, sessionVars>>
notSearch == <<statusVars, portfolioVars, pollVars, scoreVars, turnVars,
               downloadVars, budgetVars, toolbarVars, sessionVars>>
notBudget == <<statusVars, portfolioVars, pollVars, scoreVars, turnVars,
               downloadVars, searchVars, toolbarVars, sessionVars>>
notToolbar == <<statusVars, portfolioVars, pollVars, scoreVars, turnVars,
                downloadVars, searchVars, budgetVars, sessionVars>>
notSession == <<statusVars, portfolioVars, pollVars, scoreVars, turnVars,
                downloadVars, searchVars, budgetVars, toolbarVars>>

StatusStep ==
    \/ CheckTaskStatus /\ UNCHANGED notStatus
    \/ NextStatusQuery /\ UNCHANGED notStatus

PortfolioStep ==
    \/ LoadTemplate /\ UNCHANGED notPortfolio
    \/ GeneratePdf /\ UNCHANGED notPortfolio
    \/ GenerateDocx /\ UNCHANGED notPortfolio
    \/ UploadPdf /\ UNCHANGED notPortfolio
    \/ UploadDocx /\ UNCHANGED notPortfolio
    \/ (\E j \in JobTypes : SettleSubmission(j)) /\ UNCHANGED notPortfolio
    \/ CollectVersions /\ UNCHANGED notPortfolio
    \/ HandToPoller /\ UNCHANGED notPortfolio

PollStep ==
    \/ (\E awaited \in BOOLEAN : Tick(awaited)) /\ UNCHANGED notPoll
    \/ Advance /\ UNCHANGED notPoll
    \/ (\E o \in {1, 2} : \E answers \in [DOMAIN documents -> AnswerPool] :
          TickSettle(o, answers)) /\ UNCHANGED notPoll
    \/ PollTimeout /\ UNCHANGED notPoll

ScoreStep ==
    \/ ScoreProduct /\ UNCHANGED notScore

TurnStep ==
    \/ SendMessage /\ UNCHANGED notTurn
    \/ (\E answer \in AnalyzerAnswers : AnalysisResolves(answer)) /\ UNCHANGED notTurn
    \/ (\E answer \in CatalogAnswers : SearchResolves(answer)) /\ UNCHANGED notTurn
    \/ (\E ok \in BOOLEAN : ChatSettles(ok)) /\ UNCHANGED notTurn
    \/ (\E g \in PortfolioAnswers : PortfolioSettles(g)) /\ UNCHANGED notTurn

DownloadStep ==
    \/ StartDownload /\ UNCHANGED notDownload
    \/ (\E response \in DownloadResponses : DownloadSettles(response))
          /\ UNCHANGED notDownload

SearchStep ==
    \/ SearchByStyle /\ UNCHANGED notSearch

BudgetStep ==
    \/ Optimize /\ UNCHANGED notBudget

ToolbarStep ==
    \/ Confirm /\ UNCHANGED notToolbar
    \/ (\E ok \in BOOLEAN : SubmissionSettles(ok)) /\ UNCHANGED notToolbar
    \/ (\E status \in ToolbarStatuses : StatusAnswers(status)) /\ UNCHANGED notToolbar
    \/ ProcessingTimeout /\ UNCHANGED notToolbar

SessionStep ==
    \/ SessionSend /\ UNCHANGED notSession
    \/ (\E outcome \in {"failed", "plain", "products"} : SessionReply(outcome))
          /\ UNCHANGED notSession
    \/ SessionImage /\ UNCHANGED notSession
    \/ (\E outcome \in {"threw", "empty", "products"} : SessionSearch(outcome))
          /\ UNCHANGED notSession
    \/ (\E flow \in Flows, g \in PortfolioAnswers : SessionPortfolio(flow, g))
          /\ UNCHANGED notSession
    \/ (\E flow \in Flows :
          \E answers \in [1..Len(BatchOf(flow)) -> TickStatuses] :
             SessionTick(flow, answers))
          /\ UNCHANGED notSession
    \/ (\E flow \in Flows : SessionPollTimeout(flow)) /\ UNCHANGED notSession
    \/ SessionProductsUpdate /\ UNCHANGED notSession

InitStatus == StatusInit /\ PortfolioIdle /\ PollIdle /\ ScoreIdle /\ TurnIdle /\ DownloadIdle /\ SearchIdle /\ BudgetIdle /\ ToolbarIdle /\ SessionIdle

InitPortfolio == PortfolioInit /\ StatusIdle /\ PollIdle /\ ScoreIdle /\ TurnIdle /\ DownloadIdle /\ SearchIdle /\ BudgetIdle /\ ToolbarIdle /\ SessionIdle

Init == PollInit /\ StatusIdle /\ PortfolioIdle /\ ScoreIdle /\ TurnIdle /\ DownloadIdle /\ SearchIdle /\ BudgetIdle /\ ToolbarIdle /\ SessionIdle

InitScenario == ScenarioInit /\ StatusIdle /\ PortfolioIdle /\ ScoreIdle /\ TurnIdle /\ DownloadIdle /\ SearchIdle /\ BudgetIdle /\ ToolbarIdle /\ SessionIdle

InitScore == ScoreInit /\ StatusIdle /\ PortfolioIdle /\ PollIdle /\ TurnIdle /\ DownloadIdle /\ SearchIdle /\ BudgetIdle /\ ToolbarIdle /\ SessionIdle

InitTurn == TurnInit /\ StatusIdle /\ PortfolioIdle /\ PollIdle /\ ScoreIdle /\ DownloadIdle /\ SearchIdle /\ BudgetIdle /\ ToolbarIdle /\ SessionIdle

InitDownload == DownloadInit /\ StatusIdle /\ PortfolioIdle /\ PollIdle /\ ScoreIdle /\ TurnIdle /\ SearchIdle /\ BudgetIdle /\ ToolbarIdle /\ SessionIdle

InitSearch == SearchInit /\ StatusIdle /\ PortfolioIdle /\ PollIdle /\ ScoreIdle /\ TurnIdle /\ DownloadIdle /\ BudgetIdle /\ ToolbarIdle /\ SessionIdle

InitBudget == BudgetInit /\ StatusIdle /\ PortfolioIdle /\ PollIdle /\ ScoreIdle /\ TurnIdle /\ DownloadIdle /\ SearchIdle /\ ToolbarIdle /\ SessionIdle

InitToolbar == ToolbarInit /\ StatusIdle /\ PortfolioIdle /\ PollIdle /\ ScoreIdle /\ TurnIdle /\ DownloadIdle /\ SearchIdle /\ BudgetIdle /\ SessionIdle

InitSession == SessionInit /\ StatusIdle /\ PortfolioIdle /\ PollIdle /\ ScoreIdle /\ TurnIdle /\ DownloadIdle /\ SearchIdle /\ BudgetIdle /\ ToolbarIdle

SpecStatus == InitStatus /\ [][StatusStep]_vars

SpecPortfolio == InitPortfolio /\ [][PortfolioStep]_vars

Spec == Init /\ [][PollStep]_vars

SpecScenario == InitScenario /\ [][PollStep]_vars

SpecScore == InitScore /\ [][ScoreStep]_vars

SpecTurn == InitTurn /\ [][TurnStep]_vars

\* The same, with every awaited call of a turn settling: analyzeStylePreferences
\* and searchProducts catch what they await and resolve, chat and
\* createStylePortfolio resolve or reject.
SpecTurnLive == InitTurn /\ [][TurnStep]_vars /\ WF_vars(TurnStep)

SpecDownload == InitDownload /\ [][DownloadStep]_vars

SpecSearch == InitSearch /\ [][SearchStep]_vars

SpecBudget == InitBudget /\ [][BudgetStep]_vars

SpecToolbar == InitToolbar /\ [][ToolbarStep]_vars

\* The same, with every awaited call settling and every timer firing.
SpecToolbarLive == InitToolbar /\ [][ToolbarStep]_vars /\ WF_vars(ToolbarStep)

SpecSession == InitSession /\ [][SessionStep]_vars

(***************************************************************************)
(* Properties                                                              *)
(***************************************************************************)

Terminal(st) == st \in {"completed", "failed"}

SomeProcessing == \E t \in DOMAIN msgVersions : msgVersions[t].status = "processing"

\* C1 (as claimed): in the task list of the message, a task that has become
\* completed or failed keeps that status in every later step of the poller.
C1_TerminalStatusKept ==
    [][ \A t \in DOMAIN msgVersions :
           Terminal(msgVersions[t].status) =>
               msgVersions'[t].status = msgVersions[t].status ]_vars

\* C2: whatever the remote answers, no tick starts later than the timeout
\* plus one interval after the start of the batch, and once the timeout
\* callback has run the interval is cleared.
C2_NoTickAfterDeadline ==
    /\ [](~timeoutPending => ~intervalOn)
    /\ [][ (intervalOn /\ now' > now) => now' <= PollTimeoutMs + PollIntervalMs ]_vars

\* C2 witness: the clock is past timeout plus one interval, a task was never
\* reported terminal, and the poller is stopped.
C2_Witness ==
    /\ script = "free"
    /\ now > PollTimeoutMs + PollIntervalMs
    /\ SomeProcessing
    /\ ~intervalOn

\* C3 (as claimed): when every status query errors, every task stays
\* processing and the poller keeps ticking until the timeout.
C3_ErrorsLeaveProcessing ==
    script = "errors" =>
        /\ \A t \in DOMAIN msgVersions : msgVersions[t].status = "processing"
        /\ (now < PollTimeoutMs => intervalOn)

\* C4 (as claimed): once a tick in which every task was terminal has stopped
\* the poller, exactly one summary has been emitted for the batch, never
\* more than one, and none is emitted by a tick that leaves a task processing.
C4_ExactlyOneSummary ==
    /\ [](~intervalOn /\ timeoutPending => summaries = 1)
    /\ [](summaries <= 1)
    /\ [][ summaries' > summaries =>
             \A t \in DOMAIN msgVersions : Terminal(msgVersions'[t].status) ]_vars

C6_ScenarioAggregate ==
    script = "sequence" =>
        /\ (now < PollTimeoutMs => intervalOn)
        /\ (~timeoutPending => ~intervalOn)
        /\ (~timeoutPending /\ InflightCount = 0 =>
               /\ msgVersions["compressed"].status = "completed"
               /\ msgVersions["social-images"].status = "failed"
               /\ msgVersions["quick-reference"].status = "processing")

SubmittedOk == { j \in JobTypes : pfJobs[j] = "ok" }

\* C7: a failed submission leaves the other submissions attempted, does not
\* make createStylePortfolio throw, and in the returned processedVersions
\* the failed jobs are absent and the ones that went through are present.
C7_FailedSubmissionOmitted ==
    (\E j \in JobTypes : pfJobs[j] = "fail") =>
        /\ \A k \in JobTypes : pfJobs[k] # "idle"
        /\ pfOutcome # "threw"
        /\ (pfOutcome = "returned" =>
               \A k \in JobTypes :
                   (pfJobs[k] = "ok") <=> (\E v \in pfResult : v.type = k))

\* C7 witness: the call returned with one submission failed and another in
\* the returned list.
C7_Witness ==
    /\ pfOutcome = "returned"
    /\ pfJobs["compressed"] = "fail"
    /\ \E v \in pfResult : v.type = "social-images"

\* C8 (as claimed): once the main document has been generated, the call
\* does not fail.
C8_MainDocumentSurvives == pfMain => pfOutcome # "threw"

\* C9 (as claimed): what is handed to the poller is exactly the {type,
\* taskId} of the submissions that succeeded, each in status processing.
C9_HandedAreSubmittedJobs ==
    pfPc = "handed" =>
        pfHanded = { [type |-> j, taskId |-> pfTaskId[j], status |-> "processing"] :
                       j \in SubmittedOk }

\* C9 (amended): what is handed to the poller is the {type, taskId} of the
\* submissions that succeeded, each in status processing, and in the new
\* revision of the service, when both uploads went through, one more entry,
\* docx-version, whose taskId is the id of the uploaded DOCX document.
C9_HandedAreSubmittedJobsAndDocx ==
    pfPc = "handed" =>
        pfHanded = { [type |-> j, taskId |-> pfTaskId[j], status |-> "processing"] :
                       j \in SubmittedOk }
                   \cup
                   (IF pfService = "new" /\ pfDocxId # None
                    THEN {[type |-> "docx-version", taskId |-> pfDocxId,
                           status |-> "processing"]}
                    ELSE {})

\* C9 witness: the new revision handed over a list after one submission
\* failed and one succeeded.
C9_Witness ==
    /\ pfPc = "handed"
    /\ pfService = "new"
    /\ pfJobs["compressed"] = "ok"
    /\ pfJobs["social-images"] = "fail"
    /\ Cardinality(pfHanded) >= 2

\* C10 (as claimed): exactly PENDING and PROCESSING give processing, exactly
\* COMPLETED gives completed, every other value gives failed.
C10_ExactWords ==
    stResult # NoResult /\ stResponse.kind = "ok" =>
        stResult.status =
            IF stArg \in {"PENDING", "PROCESSING"} THEN "processing"
            ELSE IF stArg = "COMPLETED" THEN "completed"
            ELSE "failed"

\* C10 (amended): the words are compared without regard to case: any
\* spelling of PENDING or PROCESSING gives processing, any spelling of
\* COMPLETED gives completed, every other value, or none, gives failed.
C10_WordsIgnoringCase ==
    stResult # NoResult /\ stResponse.kind = "ok" =>
        stResult.status =
            IF stArg \in {"PENDING", "pending", "Pending", "PROCESSING", "processing"}
            THEN "processing"
            ELSE IF stArg \in {"COMPLETED", "completed", "Completed"}
            THEN "completed"
            ELSE "failed"

\* C10 witness: a lower-case spelling of COMPLETED was translated.
C10_Witness ==
    /\ stResponse.kind = "ok"
    /\ stArg = "completed"
    /\ stResult.status = "completed"

\* C11: in the task list of the message, at every moment, an entry carries a
\* downloadUrl exactly when its status is completed.
C11_DownloadUrlIffCompleted ==
    \A t \in DOMAIN msgVersions :
        Truthy(msgVersions[t].downloadUrl) <=> msgVersions[t].status = "completed"

\* C11 witness: a task was reported COMPLETED without a document id and its
\* entry got the URL built from the service address, while another entry is
\* failed and has none.
C11_Witness ==
    /\ script = "sequence"
    /\ msgVersions["compressed"] = Version("completed", FallbackUrl)
    /\ msgVersions["social-images"] = Version("failed", Absent)

\* A step in which the interval callback starts a tick.
TickStarts == intervalOn /\ now' # now

\* C19 (as claimed): a tick starts only when no earlier tick of the batch is
\* still waiting for the answers to its status queries.
C19_TicksNeverOverlap ==
    [][ TickStarts => InflightCount = 0 ]_vars

\* C20 (as claimed): a tick issues one status query for each task the
\* message shows as processing and none for a task it shows as completed or
\* failed.
C20_QueriesOnlyProcessing ==
    [][ TickStarts =>
            \A t \in DOMAIN msgVersions :
                queried'[t] = IF msgVersions[t].status = "processing" THEN 1 ELSE 0 ]_vars

\* A returned score lies in [0,1].
InUnitInterval(x) == x.den > 0 /\ 0 <= x.num /\ x.num <= x.den

\* C12: for every product and every attribute set, empty lists included, the
\* score returned is a number in [0,1], and a further call on the same
\* inputs returns the same score.
C12_ScoreInUnitInterval ==
    /\ [](scScore # NoScore => InUnitInterval(scScore))
    /\ [][ scScore # NoScore => scScore' = scScore ]_vars

\* C12 witness: a product was scored against attributes whose lists are all
\* empty.
C12_Witness ==
    /\ scParams.aesthetics = <<>> /\ scParams.searchKeywords = <<>>
    /\ scParams.colors = <<>> /\ scParams.mood = <<>>
    /\ scScore = [num |-> 0, den |-> 100]

\* Every term of the list occurs in the product's title+category text,
\* letter case ignored.
AllOccur(product, list) ==
    \A i \in 1..Len(list) : Includes(ProductText(product), toLowerCase(list[i]))

\* x >= 7/10
AtLeastSevenTenths(x) == x.den > 0 /\ 10 * x.num >= 7 * x.den

\* C13 (as claimed): when every aesthetic term and every search keyword
\* occurs in the product text and colors and mood are empty, the score is at
\* least 0.7.
C13_AllOccurGivesSevenTenths ==
    ( /\ scScore # NoScore
      /\ AllOccur(scProduct, scParams.aesthetics)
      /\ AllOccur(scProduct, scParams.searchKeywords)
      /\ scParams.colors = <<>> /\ scParams.mood = <<>> )
    => AtLeastSevenTenths(scScore)

\* C13 (amended): when there is at least one aesthetic term and at least one
\* search keyword, every one of them occurs in the product text, and colors
\* and mood are empty, the score is at least 0.7.
C13_NonEmptyAllOccurGivesSevenTenths ==
    ( /\ scScore # NoScore
      /\ scParams.aesthetics # <<>> /\ AllOccur(scProduct, scParams.aesthetics)
      /\ scParams.searchKeywords # <<>> /\ AllOccur(scProduct, scParams.searchKeywords)
      /\ scParams.colors = <<>> /\ scParams.mood = <<>> )
    => AtLeastSevenTenths(scScore)

\* C13 witness: one aesthetic term in another letter case than the title,
\* one keyword, both occurring, colors and mood empty, scored 0.7.
C13_Witness ==
    /\ scScore = [num |-> 70, den |-> 100]
    /\ scProduct.title = <<"A", "b">>
    /\ scParams.aesthetics = <<<<"a", "b">>>>
    /\ scParams.searchKeywords = <<<<"A">>>>
    /\ scParams.colors = <<>> /\ scParams.mood = <<>>

\* The turn is over: handleSendMessage has run its finally.
TurnEnded == tPc = "idle" /\ tTurns > 0

LastMessage == messages[Len(messages)]

\* Messages appended in the current turn, the user's excluded.
TurnMessages(kinds) ==
    { i \in 1..Len(messages) : messages[i].id[1] = tTurns /\ messages[i].kind \in kinds }

CatalogFailed == tCatalog \in {"neterr", "http", "payload"}

\* The turn ended with the assistant's reply, without products and without
\* a call of generateStyleDocuments.
EndedWithPlainReply ==
    /\ LastMessage.kind = "reply"
    /\ LastMessage.products = <<>>
    /\ tGen = None
    /\ ~isLoading

\* C14: searchProducts does not reject: on a network error, a non-OK
\* response or an unexpected payload it resolves to the empty list and the
\* turn goes on to the reply call; the turn then ends with the assistant's
\* normal reply, without products and without document generation, and the
\* catalog failure never makes it end with the apology (which is appended
\* only when the reply call itself has failed).
C14_CatalogFailureLeavesReplyToChat ==
    /\ (CatalogFailed => tProducts = <<>> /\ tPc \in {"chatting", "idle"})
    /\ (CatalogFailed /\ TurnEnded /\ tChat = "ok" => EndedWithPlainReply)
    /\ (CatalogFailed /\ TurnEnded /\ LastMessage.kind = "apology" => tChat = "failed")

\* C14 witness: the catalog call ended in a network error and the turn
\* ended with the plain reply.
C14_Witness ==
    /\ tCatalog = "neterr"
    /\ TurnEnded
    /\ EndedWithPlainReply

AnalyzerFailed == tAnalyzer \in {"callFailed", "unparseable"}

\* C15: when the Style Analyzer's call fails or its answer cannot be
\* parsed, analyzeStylePreferences resolves to an analysis with empty
\* attribute lists and one clarifying question, the turn goes on, and it
\* can end with the apology only because the reply call failed.
C15_AnalyzerFailureRecovered ==
    AnalyzerFailed =>
        /\ tAnalysis.shape = "ok"
        /\ tAnalysis.aesthetics = <<>>
        /\ Len(tAnalysis.followUpQuestions) = 1
        /\ (tPc = "idle" /\ LastMessage.kind = "apology" => tChat = "failed")

\* C15 witness: the analyzer's answer could not be parsed and the turn ended
\* with the assistant's reply.
C15_Witness ==
    /\ tAnalyzer = "unparseable"
    /\ TurnEnded
    /\ LastMessage.kind = "reply"

\* C16: when createStylePortfolio fails, the turn ends with exactly one
\* message about it appended after the reply, the reply keeps the products
\* it was given, and isLoading and isGeneratingDocuments are false, so that
\* handleSendMessage accepts the next message.
C16_GenerationFailureHandled ==
    (tGen # None /\ Threw(tGen)) =>
        /\ TurnEnded
        /\ Cardinality(TurnMessages({"documentError:template", "documentError:generation",
                                     "documentError:other", "apology", "documents"})) = 1
        /\ LastMessage = ErrorResponse(tTurns, tGen)
        /\ \A i \in TurnMessages({"reply"}) :
               messages[i].products = tProducts /\ messages[i].bundle = NoBundle
        /\ ~isLoading
        /\ ~isGeneratingDocuments

\* C16 witness: in the second turn the template could not be loaded; the
\* reply of the turn still shows its products.
C16_Witness ==
    /\ tGen = "threwTemplate"
    /\ tTurns = 2
    /\ LastMessage.kind = "documentError:template"
    /\ messages[Len(messages) - 1].products = FoundProducts

\* Bundles generated so far: one per turn whose createStylePortfolio
\* resolved.
Bundles == { messages[i].bundle : i \in 1..Len(messages) } \ {NoBundle}

Carriers(b) == { i \in 1..Len(messages) : messages[i].bundle = b }

\* C18 (as claimed): every generated bundle is carried by exactly one
\* message, the reply of the turn that triggered the generation, and that
\* is the message the poller is given.
C18_BundleOnTriggeringMessage ==
    /\ \A b \in Bundles :
          /\ Cardinality(Carriers(b)) = 1
          /\ \A i \in Carriers(b) : messages[i].id = <<b, 1>> /\ messages[i].kind = "reply"
    /\ \A p \in tPolled : p.messageId = <<p.bundle, 1>>

\* The bucket a failed download belongs to by its cause.
BucketOfCause(response) ==
    CASE response.kind = "http" /\ response.code = 404         -> "expired"
      [] response.kind = "http" /\ response.code = 500         -> "not ready"
      [] response.kind = "http" /\ response.code \in {401, 403} -> "authentication"
      [] OTHER                                                 -> "generic"

\* The bucket a message speaks of.
BucketOfMessage(message) ==
    CASE message.text \in {"Document not found or has expired (24-hour retention)",
                           "Document has expired (available for 24 hours only)"}
            -> "expired"
      [] message.text \in {"Server error - document may not be ready for download yet",
                           "Document is still processing. Please try again in a moment."}
            -> "not ready"
      [] message.text \in {"Authentication failed - check API credentials",
                           "Authentication error. Please refresh and try again."}
            -> "authentication"
      [] OTHER -> "generic"

DownloadFailed == dlPc = "done" /\ dlResponse.kind # "ok"

\* C17 (as claimed): a failed download is put into the bucket of its cause
\* (404 expired, 500 not ready, 401/403 authentication, anything else
\* generic) and the caller in the UI gets the message of that bucket.
C17_MessageOfCauseBucket ==
    DownloadFailed =>
        /\ BucketOfMessage(dlThrown) = BucketOfCause(dlResponse)
        /\ BucketOfMessage(dlShown) = BucketOfCause(dlResponse)

\* C22 (as claimed): a call of createStylePortfolio that returns has issued
\* exactly one document-generation request.
C22_OneGenerationRequest ==
    pfOutcome = "returned" => pfGenRequests = 1

\* C25 (as claimed): once the batch's poller has stopped (the interval is
\* cleared because every task resolved or because the timeout fired) the task
\* list of the batch's message is never modified again, not even by the answer
\* of a tick that was still in flight.
C25_StoppedPollerLeavesTasks ==
    [][~intervalOn => msgVersions' = msgVersions]_vars

\* Positions of the messages of the given kind that turn t appended.
MessagesOfTurn(t, kind) ==
    { i \in 1..Len(messages) : messages[i].id[1] = t /\ messages[i].kind = kind }

\* Turn t appended exactly one of the assistant's reply and the apology,
\* after its user message.
ReplyOrApology(t) ==
    /\ Cardinality(MessagesOfTurn(t, "user")) = 1
    /\ Cardinality(MessagesOfTurn(t, "reply") \cup MessagesOfTurn(t, "apology")) = 1
    /\ \A i \in MessagesOfTurn(t, "reply") \cup MessagesOfTurn(t, "apology") :
          \A u \in MessagesOfTurn(t, "user") : u < i

\* C27: every accepted turn ends (isLoading goes back to false), and when it
\* has ended it has appended exactly one of the assistant's reply and the
\* apology after the user's message; while it runs it has appended at most
\* one of them.
C27_TurnEndsWithReplyOrApology ==
    /\ [](TurnEnded => ~isLoading /\ \A t \in 1..tTurns : ReplyOrApology(t))
    /\ [](Cardinality(MessagesOfTurn(tTurns, "reply")
                      \cup MessagesOfTurn(tTurns, "apology")) <= 1)
    /\ (isLoading ~> ~isLoading)

\* Two turns have ended, one with the apology and one with the reply followed
\* by a failed document generation.
C27_Witness ==
    /\ TurnEnded
    /\ tTurns = 2
    /\ MessagesOfTurn(1, "apology") # {}
    /\ MessagesOfTurn(2, "reply") # {}
    /\ Threw(tGen)

\* The reasons the claim describes: the first three matched terms as
\* phrases, and after them the bonus reasons whose conditions hold.
ClaimedReasons(product, params) ==
    Slice(TermReasons(product, params), 3) \o BonusReasons(product)

\* C23 (as claimed): the reasons returned for a product are the first three
\* matched terms as phrases plus the prime bonus and the rating bonus, each
\* bonus present whenever its condition holds.
C23_ReasonsTermsPlusBonuses ==
    srPc = "done" =>
        \A i \in 1..Len(srResult) :
            srResult[i].style_match_reasons = ClaimedReasons(srResult[i], srParams)

\* C24 (as claimed): the returned list is in descending order of similarity
\* score, products of equal score in ascending order of price.
C24_ByScoreThenPrice ==
    srPc = "done" =>
        \A i, j \in 1..Len(srResult) :
            i < j =>
                \/ ScoreDifference(srResult[i].similarity_score,
                                   srResult[j].similarity_score) > 0
                \/ /\ srResult[i].similarity_score = srResult[j].similarity_score
                   /\ srResult[i].price <= srResult[j].price

C28_BoundedQueriesAndFinish ==
    /\ [](tbQueries <= 20)
    /\ [](tbPc \in {"settling", "finished"} => Len(tbOutcomes) = Len(tbSelected))
    /\ [](tbPc = "finished" => ~isProcessing)
    /\ (isProcessing ~> (tbPc = "finished" /\ ~isProcessing))

\* The first job was still processing after its 20th query, the next
\* option's job completed and the operation has finished.
C28_Witness ==
    /\ tbPc = "finished"
    /\ ~isProcessing
    /\ tbQueries < 20
    /\ Len(tbOutcomes) = 2
    /\ tbOutcomes[1] = "stillProcessing"
    /\ tbOutcomes[2] = "completed"

\* C29 (as claimed): the options passed to the operation are exactly the
\* options whose checkboxes are ticked when the user confirms.
C29_SelectedAreTicked ==
    tbPc \notin {"off", "modal"} =>
        { tbSelected[i] : i \in 1..Len(tbSelected) } = tbTicked

\* A step in which a tick of the poller of the flow settles.
TickOf(flow) == ssTicks'[flow] # ssTicks[flow]

\* Two states of a message that differ at most in the status and the
\* downloadUrl of its tasks.
SameButTaskStates(m, n) ==
    /\ m.id = n.id /\ m.kind = n.kind /\ m.products = n.products
    /\ m.styleDocuments.documentId = n.styleDocuments.documentId
    /\ Len(m.styleDocuments.processedVersions) = Len(n.styleDocuments.processedVersions)
    /\ \A k \in 1..Len(m.styleDocuments.processedVersions) :
          /\ m.styleDocuments.processedVersions[k].type
                = n.styleDocuments.processedVersions[k].type
          /\ m.styleDocuments.processedVersions[k].taskId
                = n.styleDocuments.processedVersions[k].taskId

C26_FlagWhileGenerating ==
    (\E flow \in Flows : ssFlow[flow] = "generating") => ssIsGeneratingDocuments

====
